---------------------------- MODULE Spec2Model ----------------------------
(***************************************************************************)
(* Job reconciliation and incident lifecycle of cl_jobs.py: the incident   *)
(* store (load_open_incidents, save_open_incidents, track_incident,        *)
(* remove_incident), the check-resolved pass and the approval run.         *)
(***************************************************************************)
EXTENDS Integers, Sequences, FiniteSets, TLC

(***************************************************************************)
(* Bounds of the model.                                                    *)
(***************************************************************************)
\* time.time() is read as a natural number of clock ticks, capped here.
MaxTime == 2

Services == {"OCR"}
Networks == {"ETH", "BSC"}
JobIds == {"job1", "job2"}
ErrorTexts == {"boom", "boom2"}

\* The feeds managers of the node, in the order get_all_feeds_managers
\* returns them, and the job proposals each returns from fetch_jobs.
FeedsManagers == <<"fm1", "fm2">>
FmJobs == [fm \in {"fm1", "fm2"} |->
              IF fm = "fm1" THEN <<"job1", "job2">> ELSE <<"job3">>]
RunJobIds == {"job1", "job2", "job3"}

\* The processes that use the incidents file at the same time (a scheduled
\* run and a manual one).
Procs == {"p1", "p2"}

\* Python's None, the default error_msg of track_incident.
NoneValue == "None"

VARIABLES
    file,   \* open_incidents.json: [kind, doc]
    now,    \* the last value time.time() returned
    last,   \* the last incident-store call and the file it started from
    prior,  \* the incident-store call before it
    node,   \* the node's job proposals: job id -> state
    run,    \* what the last approval run of a scope did
    pc,     \* concurrent processes: where each one is in its operation
    task,   \* concurrent processes: the operation each one runs
    loc,    \* concurrent processes: the locals of load, compose and save
    locks,  \* the flock holders of the incidents file: [sh, ex]
    copier  \* the process whose save copied to the incidents file last

vars == <<file, now, last, prior, node, run, pc, task, loc, locks, copier>>

seqVars == <<last, prior>>
runVars == <<node, run>>
procVars == <<pc, task, loc, locks, copier>>

(***************************************************************************)
(* Python dict operations on TLA+ functions.                               *)
(***************************************************************************)
EmptyDict == [k \in {} |-> 0]

DictPut(d, k, v) == [x \in (DOMAIN d) \cup {k} |-> IF x = k THEN v ELSE d[x]]

DictPop(d, k) == [x \in (DOMAIN d) \ {k} |-> d[x]]

\* The element of a one-element set.  `TheOne({F(x) : x \in {e}})` gives the
\* name x to the value of e, computed once, as a Python assignment does.
TheOne(S) == CHOOSE x \in S : TRUE

\* key = f"{service}_{network}"
Key(service, network) == service \o "_" \o network

(***************************************************************************)
(* The incidents file.  kind is "missing" (no such path), "doc" (a JSON    *)
(* document, held in doc), "empty" (zero bytes), "partial" (a strict       *)
(* prefix of a document), "garbage" (bytes that are no JSON text) or       *)
(* "unreadable" (open() fails).  doc is the JSON text.                      *)
(***************************************************************************)
FileKinds == {"missing", "doc", "empty", "partial", "garbage", "unreadable"}

MissingFile == [kind |-> "missing", doc |-> EmptyDict]

\* A scope entry in the current shape (job id -> record) and in the legacy
\* shape (a list of job ids).
DictEntry(recs) == [shape |-> "dict", recs |-> recs]

ListEntry(ids) == [shape |-> "list", ids |-> ids]

Record(error, first_seen, last_seen) ==
    [error |-> error, first_seen |-> first_seen, last_seen |-> last_seen]

\* `job_id in incidents[key]`, for a dict and for a list.
InEntry(entry, job_id) ==
    IF entry.shape = "dict"
    THEN job_id \in DOMAIN entry.recs
    ELSE \E i \in 1..Len(entry.ids) : entry.ids[i] = job_id

\* `not incidents[key]`: the empty dict or the empty list.
EntryIsEmpty(entry) ==
    IF entry.shape = "dict" THEN DOMAIN entry.recs = {} ELSE Len(entry.ids) = 0

(***************************************************************************)
(* The JSON text of a store value, as json.dump writes it and json.load    *)
(* parses it: None is written as null and a string in quotes, a dict as an *)
(* object and a list as an array; a float is written with the digits that  *)
(* read back as the same float.                                            *)
(***************************************************************************)
JsonNull == [type |-> "null", text |-> ""]

JsonString(s) == [type |-> "string", text |-> s]

JsonDumpError(error) == IF error = NoneValue THEN JsonNull ELSE JsonString(error)

\* json.load with null read as the text "null".
JsonLoadErrorKeepsNull(json) == IF json.type = "null" THEN "null" ELSE json.text

JsonLoadError(json) == IF json.type = "null" THEN NoneValue ELSE json.text

JsonDumpEntry(entry) ==
    IF entry.shape = "list" THEN [type |-> "array", items |-> entry.ids]
    ELSE [type |-> "object",
          members |-> [j \in DOMAIN entry.recs |->
                          [error |-> JsonDumpError(entry.recs[j].error),
                           first_seen |-> entry.recs[j].first_seen,
                           last_seen |-> entry.recs[j].last_seen]]]

JsonLoadEntry(json) ==
    IF json.type = "array" THEN ListEntry(json.items)
    ELSE DictEntry([j \in DOMAIN json.members |->
                       Record(JsonLoadError(json.members[j].error),
                              json.members[j].first_seen,
                              json.members[j].last_seen)])

\* json.dump(incidents, temp_file, indent=2)
JsonDump(incidents) == [k \in DOMAIN incidents |-> JsonDumpEntry(incidents[k])]

\* json.load(f)
JsonLoad(json) == [k \in DOMAIN json |-> JsonLoadEntry(json[k])]

\* The file that holds the JSON text of a store value.
DocFile(d) == [kind |-> "doc", doc |-> JsonDump(d)]

(***************************************************************************)
(* load_open_incidents.  ReadOutcome is the body of the try block: the     *)
(* value it returns or the exception it raises; LoadOpenIncidents applies  *)
(* the two except clauses.                                                 *)
(***************************************************************************)
ReadOutcome(f) ==
    IF f.kind = "missing" THEN [exc |-> "none", val |-> EmptyDict]
    ELSE IF f.kind = "unreadable" THEN [exc |-> "OSError", val |-> EmptyDict]
    ELSE IF f.kind = "doc" THEN [exc |-> "none", val |-> JsonLoad(f.doc)]
    ELSE [exc |-> "JSONDecodeError", val |-> EmptyDict]

LoadHandlersReraise(outcome) ==
    IF outcome.exc = "none"
    THEN [raised |-> FALSE, val |-> outcome.val]
    ELSE [raised |-> TRUE, val |-> EmptyDict]

LoadHandlers(outcome) ==
    IF outcome.exc = "none" THEN [raised |-> FALSE, val |-> outcome.val]
    ELSE IF outcome.exc = "JSONDecodeError" THEN [raised |-> FALSE, val |-> EmptyDict]
    ELSE [raised |-> FALSE, val |-> EmptyDict]

LoadOpenIncidents(f) == LoadHandlers(ReadOutcome(f))

(***************************************************************************)
(* save_open_incidents run to completion by one process with no other      *)
(* process touching the file.  env is what the file system lets it do:     *)
(* "ok", "tmp_fail" (the temporary file cannot be created or written) or   *)
(* "open_fail" (open(INCIDENTS_FILE, 'w') raises).  Every exception is     *)
(* caught by the outer except clause and logged.  A file the process       *)
(* cannot open for reading stays so, whether or not the write goes         *)
(* through.                                                                *)
(***************************************************************************)
SaveEnvs == {"ok", "tmp_fail", "open_fail"}

SaveOpenIncidents(f, incidents, env) ==
    IF env = "tmp_fail" THEN [raised |-> FALSE, file |-> f]
    ELSE IF env = "open_fail" THEN [raised |-> FALSE, file |-> f]
    ELSE IF f.kind = "unreadable" THEN [raised |-> FALSE, file |-> f]
    ELSE [raised |-> FALSE, file |-> DocFile(incidents)]

(***************************************************************************)
(* time.time().  A call's reads are non-decreasing, and the first read of  *)
(* a call is later than every read of an earlier call: each call loads     *)
(* the file (open, flock, parse) before it reads the clock, which takes    *)
(* longer than the clock's resolution.  ClockReads(n, t) is every          *)
(* sequence of n such reads after time t.                                  *)
(***************************************************************************)
ClockReads(n, t) ==
    {ts \in [1..n -> (t + 1)..MaxTime] :
        \A i \in 1..n : \A j \in 1..n : i <= j => ts[i] <= ts[j]}

LastRead(ts, t) == IF Len(ts) = 0 THEN t ELSE ts[Len(ts)]

(***************************************************************************)
(* track_incident.                                                         *)
(***************************************************************************)
\* The legacy list turned into a dict (lines 200-207): each old job id
\* takes two reads of the clock, a repeated id keeps its last record.
ConvertList(ids, ts) ==
    [j \in {ids[i] : i \in 1..Len(ids)} |->
        LET i == CHOOSE n \in 1..Len(ids) :
                    ids[n] = j /\ \A m \in (n + 1)..Len(ids) : ids[m] # j
        IN Record(NoneValue, ts[2 * i - 1], ts[2 * i])]

\* The scope entry after the shape upgrade, and the clock reads it took.
UpgradedEntry(entry, ts) ==
    IF entry.shape = "list" THEN DictEntry(ConvertList(entry.ids, ts)) ELSE entry

UpgradeReads(entry) == IF entry.shape = "list" THEN 2 * Len(entry.ids) ELSE 0

\* How many times this call reads the clock.
TrackReads(incidents, key, job_id) ==
    IF key \in DOMAIN incidents
    THEN UpgradeReads(incidents[key])
         + (IF InEntry(incidents[key], job_id) THEN 1 ELSE 2)
    ELSE 2

\* Lines 216-225 with the update branch overwriting first_seen as well.
StoreRecordResetsFirstSeen(recs, job_id, error_msg, is_new_incident, ts, at) ==
    IF is_new_incident \/ job_id \notin DOMAIN recs
    THEN DictPut(recs, job_id, Record(error_msg, ts[at + 1], ts[at + 2]))
    ELSE DictPut(recs, job_id, Record(error_msg, ts[at + 1], ts[at + 1]))

\* Lines 216-225: a new record, or the error and last_seen of the old one.
StoreRecord(recs, job_id, error_msg, is_new_incident, ts, at) ==
    IF is_new_incident \/ job_id \notin DOMAIN recs
    THEN DictPut(recs, job_id, Record(error_msg, ts[at + 1], ts[at + 2]))
    ELSE DictPut(recs, job_id,
                 Record(error_msg, recs[job_id].first_seen, ts[at + 1]))

\* Lines 190-225: the document track_incident composes and its result.
TrackCompose(incidents, key, job_id, error_msg, ts) ==
    LET present == key \in DOMAIN incidents
        entry == IF present THEN UpgradedEntry(incidents[key], ts)
                 ELSE DictEntry(EmptyDict)
        at == IF present THEN UpgradeReads(incidents[key]) ELSE 0
        is_new_incident == ~(present /\ job_id \in DOMAIN entry.recs)
        recs == StoreRecord(entry.recs, job_id, error_msg, is_new_incident, ts, at)
    IN [doc |-> DictPut(incidents, key, DictEntry(recs)), ret |-> is_new_incident]

TrackIncident(f, service, network, job_id, error_msg, ts, env) ==
    LET loaded == LoadOpenIncidents(f)
        c == TrackCompose(loaded.val, Key(service, network), job_id, error_msg, ts)
        saved == SaveOpenIncidents(f, c.doc, env)
    IN IF loaded.raised THEN [raised |-> TRUE, ret |-> FALSE, file |-> f]
       ELSE [raised |-> saved.raised, ret |-> c.ret, file |-> saved.file]

(***************************************************************************)
(* remove_incident.                                                        *)
(***************************************************************************)
\* Lines 243-245 without the removal of the emptied scope key.
PopJobKeepsKey(incidents, key, job_id) ==
    DictPut(incidents, key, DictEntry(DictPop(incidents[key].recs, job_id)))

\* Lines 243-245 on a dict entry: pop the job, and the key once it is empty.
PopJob(incidents, key, job_id) ==
    LET recs == DictPop(incidents[key].recs, job_id)
    IN IF DOMAIN recs = {} THEN DictPop(incidents, key)
       ELSE DictPut(incidents, key, DictEntry(recs))

\* Lines 242-246.  list.pop(job_id) with a string raises TypeError.
RemoveCompose(incidents, key, job_id) ==
    IF key \in DOMAIN incidents /\ InEntry(incidents[key], job_id)
    THEN IF incidents[key].shape = "list"
         THEN [raised |-> TRUE, save |-> FALSE, doc |-> incidents]
         ELSE [raised |-> FALSE, save |-> TRUE, doc |-> PopJob(incidents, key, job_id)]
    ELSE [raised |-> FALSE, save |-> FALSE, doc |-> incidents]

RemoveIncident(f, service, network, job_id, env) ==
    LET loaded == LoadOpenIncidents(f)
        c == RemoveCompose(loaded.val, Key(service, network), job_id)
        saved == SaveOpenIncidents(f, c.doc, env)
    IN IF loaded.raised \/ c.raised THEN [raised |-> TRUE, file |-> f]
       ELSE IF c.save THEN [raised |-> saved.raised, file |-> saved.file]
       ELSE [raised |-> FALSE, file |-> f]

\* The open incidents of a scope, as check_open_incidents reads them
\* (lines 275-279): the job ids under the scope key.
OpenIncidents(f, service, network) ==
    LET incidents == LoadOpenIncidents(f).val
        key == Key(service, network)
    IN IF key \notin DOMAIN incidents THEN {}
       ELSE IF incidents[key].shape = "dict" THEN DOMAIN incidents[key].recs
       ELSE {incidents[key].ids[i] : i \in 1..Len(incidents[key].ids)}

(***************************************************************************)
(* The node.  A job proposal is PENDING (status PENDING), UPDATED          *)
(* (approved, with a latest spec that is PENDING), APPROVED (nothing       *)
(* pending) or GONE (no feeds manager returns it any more).                *)
(***************************************************************************)
JobStates == {"PENDING", "UPDATED", "APPROVED", "GONE"}

\* The job dict fetch_jobs returns for a proposal.
JobDict(job_id, state) ==
    [id |-> job_id,
     status |-> IF state = "PENDING" THEN "PENDING" ELSE "APPROVED",
     latestSpec |-> [id |-> "spec-" \o job_id,
                     status |-> IF state \in {"PENDING", "UPDATED"}
                                THEN "PENDING" ELSE "APPROVED"]]

\* chainlink_api.fetch_jobs(fm["id"]): the proposals of a feeds manager.
FetchJobs(nd, fm) ==
    LET ids == SelectSeq(FmJobs[fm], LAMBDA j : nd[j] # "GONE")
    IN [i \in 1..Len(ids) |-> JobDict(ids[i], nd[ids[i]])]

\* get_jobs_to_approve: the pending proposals, then the pending updates.
GetJobsToApprove(jobs) ==
    SelectSeq(jobs, LAMBDA job : job.status = "PENDING")
    \o SelectSeq(jobs, LAMBDA job : job.status # "PENDING"
                                    /\ job.latestSpec.status = "PENDING")

RECURSIVE Concat(_)
Concat(seqs) == IF Len(seqs) = 0 THEN << >> ELSE Head(seqs) \o Concat(Tail(seqs))

SeqToSet(q) == {q[i] : i \in 1..Len(q)}

(***************************************************************************)
(* check_open_incidents.  The jobs of every feeds manager are walked in    *)
(* order against the incidents loaded at the start (lines 275-294).        *)
(***************************************************************************)
PagerDuty(action, job_id) == [action |-> action, job_id |-> job_id]

\* Line 287: the job is no longer pending.
NoLongerPending(job) ==
    job.status # "PENDING" /\ job.latestSpec.status # "PENDING"

RECURSIVE CheckJobs(_, _, _, _, _, _)
CheckJobs(acc, entry, jobs, i, service, network) ==
    IF i > Len(jobs) \/ acc.raised THEN acc
    ELSE IF InEntry(entry, jobs[i].id) /\ NoLongerPending(jobs[i])
    THEN TheOne({CheckJobs(next, entry, jobs, i + 1, service, network) :
            next \in {[file |-> r.file,
                       pd |-> Append(acc.pd, PagerDuty("resolve", jobs[i].id)),
                       raised |-> r.raised] :
                r \in {RemoveIncident(acc.file, service, network, jobs[i].id, "ok")}}})
    ELSE CheckJobs(acc, entry, jobs, i + 1, service, network)

CheckOpenIncidents(f, nd, service, network) ==
    LET loaded == LoadOpenIncidents(f)
        incidents == loaded.val
        key == Key(service, network)
        start == [file |-> f, pd |-> << >>, raised |-> loaded.raised]
    IN IF loaded.raised THEN start
       ELSE IF key \notin DOMAIN incidents \/ EntryIsEmpty(incidents[key]) THEN start
       ELSE TheOne({CheckJobs(acc, entry, jobs, 1, service, network) :
               acc \in {start}, entry \in {incidents[key]},
               jobs \in {Concat([k \in 1..Len(FeedsManagers) |->
                                    FetchJobs(nd, FeedsManagers[k])])}})

(***************************************************************************)
(* approve_jobs.  What the node answers to the approval of a job is the    *)
(* job's outcome: "ok"; "error" (a rejection that names no bridge);        *)
(* "bridge_norepair" (bridges are missing and create_missing_bridges       *)
(* returns False); "bridge_retry_ok" and "bridge_retry_fail" (the bridges  *)
(* were created and the retried approval succeeds or fails); "exception"   *)
(* (approve_job raises).                                                   *)
(***************************************************************************)
ApproveOutcomes ==
    {"ok", "error", "bridge_norepair", "bridge_retry_ok", "bridge_retry_fail",
     "exception"}

\* Lines 309-400 for one job: whether it ends in approved_jobs.
ApprovedBy(outcome) == outcome \in {"ok", "bridge_retry_ok"}

\* job_with_error['error_details'] (lines 334 and 399).
ErrorDetails(outcome) ==
    IF outcome = "exception" THEN "exception"
    ELSE IF outcome = "error" THEN "boom"
    ELSE "bridge check: not all bridges exist"

\* Lines 305-400: approved_jobs and failed_jobs, in the order of the loop.
ApproveLoop(jobs_to_approve, outcomes) ==
    [approved_jobs |->
        SelectSeq(jobs_to_approve, LAMBDA job : ApprovedBy(outcomes[job.id])),
     failed_jobs |->
        LET failed == SelectSeq(jobs_to_approve,
                                LAMBDA job : ~ApprovedBy(outcomes[job.id]))
        IN [i \in 1..Len(failed) |->
               [id |-> failed[i].id,
                error_details |-> ErrorDetails(outcomes[failed[i].id])]]]

Slack(kind, fm, job_ids) == [kind |-> kind, fm |-> fm, job_ids |-> job_ids]

Ids(jobs) == [i \in 1..Len(jobs) |-> jobs[i].id]

\* send_approval_notification: one Slack message, then remove_incident and
\* a PagerDuty resolve for every approved job (lines 423-437).
RECURSIVE ResolveApproved(_, _, _, _, _)
ResolveApproved(acc, approved_jobs, i, service, network) ==
    IF i > Len(approved_jobs) \/ acc.raised THEN acc
    ELSE TheOne({ResolveApproved(next, approved_jobs, i + 1, service, network) :
            next \in {[file |-> r.file,
                       pd |-> IF r.raised THEN acc.pd
                              ELSE Append(acc.pd,
                                          PagerDuty("resolve", approved_jobs[i].id)),
                       raised |-> r.raised] :
                r \in {RemoveIncident(acc.file, service, network,
                                      approved_jobs[i].id, "ok")}}})

SendApprovalNotification(f, fm, service, network, approved_jobs) ==
    TheOne({[file |-> r.file, pd |-> r.pd, raised |-> r.raised,
             slack |-> <<Slack("approved", fm, Ids(approved_jobs))>>] :
        r \in {ResolveApproved([file |-> f, pd |-> << >>, raised |-> FALSE],
                               approved_jobs, 1, service, network)}})

\* error_msg of line 457.
FailureText(job) ==
    "Failed to approve job " \o job.id \o ": " \o job.error_details

\* Line 467-468 with the result of track_incident ignored.
NewFailuresEveryFailure(new_failures, job, is_new) == Append(new_failures, job)

\* Lines 467-468: only a new incident joins new_failures.
NewFailures(new_failures, job, is_new) ==
    IF is_new THEN Append(new_failures, job) ELSE new_failures

\* Lines 451-481: track every failed job, page for every failed job.  Each
\* track_incident call reads the clock one tick after the call before it.
RECURSIVE TrackFailures(_, _, _, _, _)
TrackFailures(acc, failed_jobs, i, service, network) ==
    IF i > Len(failed_jobs) \/ acc.raised THEN acc
    ELSE LET job == failed_jobs[i]
             n == TrackReads(LoadOpenIncidents(acc.file).val,
                             Key(service, network), job.id)
             ts == [k \in 1..n |-> acc.t + 1]
         IN TheOne({TrackFailures(next, failed_jobs, i + 1, service, network) :
                next \in {[file |-> r.file, t |-> acc.t + 1, raised |-> r.raised,
                           new_failures |-> NewFailures(acc.new_failures, job, r.ret),
                           pd |-> Append(acc.pd, PagerDuty("trigger", job.id))] :
                    r \in {TrackIncident(acc.file, service, network, job.id,
                                         FailureText(job), ts, "ok")}}})

\* Lines 484-507 with one Slack message for each new failure.
FailureSlackPerJob(fm, new_failures) ==
    [i \in 1..Len(new_failures) |-> Slack("failed", fm, <<new_failures[i].id>>)]

\* Lines 484-507: one Slack message that lists all new failures.
FailureSlack(fm, new_failures) ==
    IF Len(new_failures) > 0 THEN <<Slack("failed", fm, Ids(new_failures))>>
    ELSE << >>

SendFailureNotification(f, t, fm, service, network, failed_jobs) ==
    TheOne({[file |-> r.file, t |-> r.t, pd |-> r.pd, raised |-> r.raised,
             slack |-> IF r.raised THEN << >> ELSE FailureSlack(fm, r.new_failures)] :
        r \in {TrackFailures([file |-> f, t |-> t, raised |-> FALSE,
                              new_failures |-> << >>, pd |-> << >>],
                             failed_jobs, 1, service, network)}})

\* Line 403: the notification functions, which also update the incident
\* store, run only when notifications are not suppressed.
Notify(suppress_notifications) == ~suppress_notifications

\* approve_jobs for the jobs of one feeds manager.
ApproveJobs(f, t, fm, jobs_to_approve, outcomes, service, network, suppress_notifications) ==
    LET none == [file |-> f, t |-> t, pd |-> << >>, raised |-> FALSE, slack |-> << >>]
    IN TheOne({TheOne({TheOne({
           [approved_jobs |-> loop.approved_jobs, failed_jobs |-> loop.failed_jobs,
            file |-> b.file, t |-> b.t, slack |-> a.slack \o b.slack,
            pd |-> a.pd \o b.pd, raised |-> a.raised \/ b.raised] :
           b \in {IF Notify(suppress_notifications) /\ Len(loop.failed_jobs) > 0
                     /\ ~a.raised
                  THEN SendFailureNotification(a.file, t, fm, service, network,
                                               loop.failed_jobs)
                  ELSE [none EXCEPT !.file = a.file]}}) :
           a \in {IF Notify(suppress_notifications) /\ Len(loop.approved_jobs) > 0
                  THEN SendApprovalNotification(f, fm, service, network,
                                                loop.approved_jobs) @@ [t |-> t]
                  ELSE none}}) :
           loop \in {ApproveLoop(jobs_to_approve, outcomes)}})

(***************************************************************************)
(* main, for one host of load_hosts (lines 586-633).                       *)
(***************************************************************************)
\* The node after the approval of these jobs.
Approved(nd, approved_jobs) ==
    [j \in DOMAIN nd |-> IF j \in SeqToSet(Ids(approved_jobs)) THEN "APPROVED" ELSE nd[j]]

\* Lines 608-633: the loop over the feeds managers.  An exception that
\* leaves approve_jobs is caught and logged (line 632), and the loop goes on.
RECURSIVE FeedsManagerLoop(_, _, _, _, _, _, _)
FeedsManagerLoop(acc, k, outcomes, service, network, execute_flag, suppress_notifications) ==
    IF k > Len(FeedsManagers) THEN acc
    ELSE TheOne({
           IF Len(jobs_to_approve) = 0 \/ ~execute_flag
           THEN FeedsManagerLoop(acc, k + 1, outcomes, service, network,
                                 execute_flag, suppress_notifications)
           ELSE TheOne({FeedsManagerLoop(next, k + 1, outcomes, service, network,
                                         execute_flag, suppress_notifications) :
                  next \in {[file |-> r.file, t |-> r.t,
                             nd |-> Approved(acc.nd, r.approved_jobs),
                             slack |-> acc.slack \o r.slack, pd |-> acc.pd \o r.pd,
                             acted |-> acc.acted \cup SeqToSet(Ids(jobs_to_approve)),
                             approved |-> acc.approved
                                          \cup SeqToSet(Ids(r.approved_jobs)),
                             failed |-> acc.failed \cup SeqToSet(Ids(r.failed_jobs)),
                             calls |-> acc.calls + 1] :
                      r \in {ApproveJobs(acc.file, acc.t, FeedsManagers[k],
                                         jobs_to_approve, outcomes, service, network,
                                         suppress_notifications)}}}) :
           jobs_to_approve \in {GetJobsToApprove(FetchJobs(acc.nd, FeedsManagers[k]))}})

\* Lines 590-633.  raised: an exception leaves main (check_open_incidents is
\* called outside every try block).
MainHost(f, t, nd, service, network, auth_result, execute_flag, suppress_notifications, outcomes) ==
    LET start == [file |-> f, t |-> t, nd |-> nd, slack |-> << >>, pd |-> << >>,
                  acted |-> {}, approved |-> {}, failed |-> {}, calls |-> 0]
    IN IF ~auth_result
       THEN start @@ [raised |-> FALSE, after_check |-> f, check_pd |-> << >>]
       ELSE TheOne({
              IF check.raised
              THEN [start EXCEPT !.file = check.file, !.pd = check.pd]
                   @@ [raised |-> TRUE, after_check |-> check.file,
                       check_pd |-> check.pd]
              ELSE TheOne({
                     [loop EXCEPT !.pd = check.pd \o loop.pd]
                     @@ [raised |-> FALSE, after_check |-> check.file,
                         check_pd |-> check.pd] :
                     loop \in {FeedsManagerLoop(
                                  [start EXCEPT !.file = check.file], 1, outcomes,
                                  service, network, execute_flag,
                                  suppress_notifications)}}) :
              check \in {CheckOpenIncidents(f, nd, service, network)}})

\* Lines 595-603: what main sends when authentication fails.
AuthFailureAlerts(suppress_notifications) ==
    IF suppress_notifications THEN [slack |-> << >>, pd |-> << >>]
    ELSE [slack |-> <<Slack("auth", "", << >>)>>,
          pd |-> <<PagerDuty("trigger", "auth_fail")>>]

(***************************************************************************)
(* The incident store called one operation at a time on a healthy file     *)
(* system, from the state in which open_incidents.json does not exist.     *)
(***************************************************************************)
NoRun ==
    [service |-> "", network |-> "", auth |-> FALSE, execute |-> FALSE,
     suppress |-> FALSE, before |-> MissingFile, node_before |-> << >>,
     after_check |-> MissingFile, check_pd |-> << >>, acted |-> {},
     approved |-> {}, failed |-> {}, slack |-> << >>, pd |-> << >>,
     calls |-> 0, raised |-> FALSE]

\* No process has started.
NoTask == [kind |-> "none", job_id |-> "", error |-> NoneValue]

NoLocals ==
    [incidents |-> EmptyDict, raw |-> "none", doc |-> EmptyDict,
     prev |-> MissingFile, crash_at |-> "none"]

ProcsIdle ==
    /\ pc = [p \in Procs |-> "idle"]
    /\ task = [p \in Procs |-> NoTask]
    /\ loc = [p \in Procs |-> NoLocals]
    /\ locks = [sh |-> {}, ex |-> {}]
    /\ copier = "none"

NoCall ==
    [op |-> "none", service |-> "", network |-> "", job_id |-> "",
     error |-> NoneValue, ret |-> FALSE, raised |-> FALSE, before |-> MissingFile,
     val |-> EmptyDict]

Call(op, service, network, job_id, error, ret, raised, before) ==
    [op |-> op, service |-> service, network |-> network, job_id |-> job_id,
     error |-> error, ret |-> ret, raised |-> raised, before |-> before,
     val |-> EmptyDict]

\* A call of load_open_incidents and the value it returned.
LoadCall(val, raised, before) ==
    [NoCall EXCEPT !.op = "load", !.val = val, !.raised = raised,
                   !.before = before]

Init ==
    /\ file = MissingFile
    /\ now = 0
    /\ last = NoCall
    /\ prior = NoCall
    /\ node = [j \in RunJobIds |-> "GONE"]
    /\ run = NoRun
    /\ ProcsIdle

Track(service, network, job_id, error_msg) ==
    \E ts \in ClockReads(TrackReads(LoadOpenIncidents(file).val,
                                    Key(service, network), job_id), now) :
        LET r == TrackIncident(file, service, network, job_id, error_msg, ts, "ok")
        IN /\ file' = r.file
           /\ now' = LastRead(ts, now)
           /\ last' = Call("track", service, network, job_id, error_msg,
                           r.ret, r.raised, file)
           /\ prior' = last
           /\ UNCHANGED <<runVars, procVars>>

Remove(service, network, job_id) ==
    LET r == RemoveIncident(file, service, network, job_id, "ok")
    IN /\ file' = r.file
       /\ last' = Call("remove", service, network, job_id, NoneValue,
                       FALSE, r.raised, file)
       /\ prior' = last
       /\ UNCHANGED <<now, runVars, procVars>>

Next ==
    \/ \E s \in Services, n \in Networks, j \in JobIds,
          e \in ErrorTexts : Track(s, n, j, e)
    \/ \E s \in Services, n \in Networks, j \in JobIds : Remove(s, n, j)

Spec == Init /\ [][Next]_vars

(***************************************************************************)
(* The approval job run again and again on one host (the scheduler starts  *)
(* cl_jobs.py every interval; the runs do not overlap), while the node's   *)
(* proposals change between the runs.  run describes the run that has     *)
(* just finished.                                                          *)
(***************************************************************************)
RunNetworks == {"ETH"}

InitRun ==
    /\ file = MissingFile
    /\ now = 0
    /\ last = NoCall
    /\ prior = NoCall
    /\ node \in [RunJobIds -> JobStates]
    /\ run = NoRun
    /\ ProcsIdle

\* The jobs a run would try to approve on this node.
ToApprove(nd) ==
    UNION {SeqToSet(Ids(GetJobsToApprove(FetchJobs(nd, FeedsManagers[k])))) :
              k \in 1..Len(FeedsManagers)}

\* What the node may answer to an approval in these runs.
RunOutcomes == {"ok", "error", "bridge_retry_ok", "bridge_retry_fail"}

\* The node's answers, for the jobs the run asks about.
Answers(nd, auth_result, execute_flag) ==
    LET asked == IF auth_result /\ execute_flag THEN ToApprove(nd) ELSE {}
    IN {[j \in RunJobIds |-> IF j \in asked THEN o[j] ELSE "ok"] :
           o \in [asked -> RunOutcomes]}

Run(service, network, auth_result, execute_flag, suppress_notifications, outcomes) ==
    /\ run = NoRun
    /\ \E r \in {MainHost(file, now, node, service, network, auth_result,
                       execute_flag, suppress_notifications, outcomes)} :
        LET alerts == AuthFailureAlerts(suppress_notifications)
        IN /\ r.t <= MaxTime
           /\ file' = r.file
           /\ now' = r.t
           /\ node' = r.nd
           /\ run' = [service |-> service, network |-> network, auth |-> auth_result,
                      execute |-> execute_flag, suppress |-> suppress_notifications,
                      before |-> file, node_before |-> node,
                      after_check |-> r.after_check, check_pd |-> r.check_pd,
                      acted |-> r.acted, approved |-> r.approved, failed |-> r.failed,
                      slack |-> IF auth_result THEN r.slack ELSE alerts.slack,
                      pd |-> IF auth_result THEN r.pd ELSE alerts.pd,
                      calls |-> r.calls, raised |-> r.raised]
           /\ UNCHANGED <<seqVars, procVars>>

\* The scheduler sleeps until the next run is due.
Sleep ==
    /\ run # NoRun
    /\ run' = NoRun
    /\ UNCHANGED <<file, now, seqVars, node, procVars>>

\* Between two runs a proposal arrives, is updated, is approved or cancelled
\* by an operator, or is deleted on the node.
NodeChange(job_id, state) ==
    /\ run = NoRun
    /\ node[job_id] # state
    /\ node' = [node EXCEPT ![job_id] = state]
    /\ UNCHANGED <<file, now, seqVars, run, procVars>>

NextRun ==
    \/ /\ run = NoRun
       /\ \E s \in Services, n \in RunNetworks, auth_result \in BOOLEAN,
             execute_flag \in BOOLEAN, suppress_notifications \in BOOLEAN :
             \E outcomes \in Answers(node, auth_result, execute_flag) :
                 Run(s, n, auth_result, execute_flag, suppress_notifications, outcomes)
    \/ \E j \in RunJobIds, st \in JobStates : NodeChange(j, st)
    \/ Sleep

SpecRun == InitRun /\ [][NextRun]_vars

(***************************************************************************)
(* Independent processes on the same incidents file, each running one      *)
(* operation of the store.  load_open_incidents and save_open_incidents    *)
(* are taken one system call at a time; a process may be killed at any     *)
(* step.  flock is advisory: it constrains only the flock calls.           *)
(***************************************************************************)
ConcService == "OCR"
ConcNetwork == "ETH"

EmptyFile == [kind |-> "empty", doc |-> EmptyDict]

GarbageFile == [kind |-> "garbage", doc |-> EmptyDict]

\* The first bytes of the JSON text of a document.
PartialFile(d) == [kind |-> "partial", doc |-> d]

Tasks ==
    {[kind |-> "track", job_id |-> j, error |-> "boom2"] : j \in JobIds}
    \cup {[kind |-> "remove", job_id |-> j, error |-> NoneValue] : j \in JobIds}
    \cup {[kind |-> "load", job_id |-> "", error |-> NoneValue]}

\* The file a sequential track_incident of job1 leaves.
TrackedOnce ==
    DocFile(TrackCompose(EmptyDict, Key(ConcService, ConcNetwork), "job1", "boom",
                         <<1, 1>>).doc)

InitConc ==
    /\ file \in {MissingFile, TrackedOnce}
    /\ now = 1
    /\ last = NoCall
    /\ prior = NoCall
    /\ node = [j \in RunJobIds |-> "GONE"]
    /\ run = NoRun
    /\ ProcsIdle

Goto(p, label) == pc' = [pc EXCEPT ![p] = label]

Start(p, t) ==
    /\ pc[p] = "idle"
    /\ task' = [task EXCEPT ![p] = t]
    /\ Goto(p, "load_open")
    /\ UNCHANGED <<file, now, seqVars, runVars, loc, locks, copier>>

\* Lines 110-111: os.path.exists and open(INCIDENTS_FILE, 'r').
LoadOpen(p) ==
    /\ pc[p] = "load_open"
    /\ IF file.kind = "missing"
       THEN /\ loc' = [loc EXCEPT ![p].incidents = EmptyDict, ![p].raw = "missing"]
            /\ Goto(p, "loaded")
       ELSE /\ Goto(p, "load_lock")
            /\ UNCHANGED loc
    /\ UNCHANGED <<file, now, seqVars, runVars, task, locks, copier>>

\* Line 113: flock(LOCK_SH) waits while another process holds LOCK_EX.
LoadLock(p) ==
    /\ pc[p] = "load_lock"
    /\ locks.ex = {}
    /\ locks' = [locks EXCEPT !.sh = @ \cup {p}]
    /\ Goto(p, "load_read")
    /\ UNCHANGED <<file, now, seqVars, runVars, task, loc, copier>>

\* Line 115 and the except clauses: json.load of what the file holds now.
LoadRead(p) ==
    /\ pc[p] = "load_read"
    /\ loc' = [loc EXCEPT ![p].incidents = LoadOpenIncidents(file).val,
                          ![p].raw = file.kind]
    /\ Goto(p, "load_unlock")
    /\ UNCHANGED <<file, now, seqVars, runVars, task, locks, copier>>

\* Line 118 with the lock kept.
ReleaseSharedKeeps(holders, p) == holders

\* Line 118: flock(LOCK_UN).
ReleaseShared(holders, p) == holders \ {p}

LoadUnlock(p) ==
    /\ pc[p] = "load_unlock"
    /\ locks' = [locks EXCEPT !.sh = ReleaseShared(@, p)]
    /\ Goto(p, "loaded")
    /\ UNCHANGED <<file, now, seqVars, runVars, task, loc, copier>>

\* track_incident lines 191-225 and remove_incident lines 240-245 on the
\* loaded document.  Every clock read of the call returns t.
Compose(p, t) ==
    /\ pc[p] = "loaded"
    /\ LET key == Key(ConcService, ConcNetwork)
           incidents == loc[p].incidents
           n == TrackReads(incidents, key, task[p].job_id)
           tracked == TrackCompose(incidents, key, task[p].job_id, task[p].error,
                                   [k \in 1..n |-> t])
           removed == RemoveCompose(incidents, key, task[p].job_id)
       IN IF task[p].kind = "track"
          THEN /\ loc' = [loc EXCEPT ![p].doc = tracked.doc, ![p].prev = file]
               /\ now' = t
               /\ Goto(p, "save_tmp")
          ELSE IF task[p].kind = "remove" /\ removed.save
          THEN /\ loc' = [loc EXCEPT ![p].doc = removed.doc, ![p].prev = file]
               /\ Goto(p, "save_tmp")
               /\ UNCHANGED now
          ELSE /\ Goto(p, "done")
               /\ UNCHANGED <<loc, now>>
    /\ UNCHANGED <<file, seqVars, runVars, task, locks, copier>>

\* Lines 143-154: the document is written to a temporary file, which is
\* flushed, synced and closed.
SaveTmp(p) ==
    /\ pc[p] = "save_tmp"
    /\ Goto(p, "save_open")
    /\ UNCHANGED <<file, now, seqVars, runVars, task, loc, locks, copier>>

\* Line 157: open(INCIDENTS_FILE, 'w') creates the file or truncates it.
SaveOpen(p) ==
    /\ pc[p] = "save_open"
    /\ file' = EmptyFile
    /\ Goto(p, "save_lock")
    /\ UNCHANGED <<now, seqVars, runVars, task, loc, locks, copier>>

\* Line 159: flock(LOCK_EX) waits for every other holder.
SaveLock(p) ==
    /\ pc[p] = "save_lock"
    /\ locks.ex = {}
    /\ locks.sh \ {p} = {}
    /\ locks' = [locks EXCEPT !.ex = {p}]
    /\ Goto(p, "save_copy")
    /\ UNCHANGED <<file, now, seqVars, runVars, task, loc, copier>>

\* Line 163: shutil.copy2 opens INCIDENTS_FILE for writing, which truncates it.
SaveCopyOpen(p) ==
    /\ pc[p] = "save_copy"
    /\ file' = EmptyFile
    /\ Goto(p, "save_write")
    /\ UNCHANGED <<now, seqVars, runVars, task, loc, locks, copier>>

\* Line 163: the bytes of the temporary file, once all are copied.
CopiedFile(d) == DocFile(d)

\* Line 163: shutil.copy2 writes the bytes, in one write or in two.
SaveCopyWrite(p) ==
    /\ pc[p] = "save_write"
    /\ \/ /\ file' = CopiedFile(loc[p].doc)
          /\ copier' = p
          /\ Goto(p, "save_unlock")
       \/ /\ file' = PartialFile(loc[p].doc)
          /\ Goto(p, "save_write_rest")
          /\ UNCHANGED copier
    /\ UNCHANGED <<now, seqVars, runVars, task, loc, locks>>

\* The second write lands after the first one, unless another process has
\* truncated the file in between: then it lands after a hole.
SaveCopyRest(p) ==
    /\ pc[p] = "save_write_rest"
    /\ file' = IF file = PartialFile(loc[p].doc) THEN CopiedFile(loc[p].doc)
               ELSE GarbageFile
    /\ copier' = p
    /\ Goto(p, "save_unlock")
    /\ UNCHANGED <<now, seqVars, runVars, task, loc, locks>>

\* Line 166: flock(LOCK_UN), and the with block closes the file.
SaveUnlock(p) ==
    /\ pc[p] = "save_unlock"
    /\ locks' = [locks EXCEPT !.ex = @ \ {p}]
    /\ Goto(p, "save_unlink")
    /\ UNCHANGED <<file, now, seqVars, runVars, task, loc, copier>>

\* Line 170: os.unlink of the temporary file.
SaveUnlink(p) ==
    /\ pc[p] = "save_unlink"
    /\ Goto(p, "done")
    /\ UNCHANGED <<file, now, seqVars, runVars, task, loc, locks, copier>>

LoadSteps == {"load_open", "load_lock", "load_read", "load_unlock", "loaded"}

SaveSteps ==
    {"save_tmp", "save_open", "save_lock", "save_copy", "save_write",
     "save_write_rest", "save_unlock", "save_unlink"}

\* The process is killed (or the machine stops) before its next step; the
\* kernel drops its locks.
Crash(p) ==
    /\ pc[p] \in LoadSteps \cup SaveSteps
    /\ loc' = [loc EXCEPT ![p].crash_at = pc[p]]
    /\ locks' = [sh |-> locks.sh \ {p}, ex |-> locks.ex \ {p}]
    /\ Goto(p, "crashed")
    /\ UNCHANGED <<file, now, seqVars, runVars, task, copier>>

NextConc ==
    \/ \E p \in Procs, t \in Tasks : Start(p, t)
    \/ \E p \in Procs : LoadOpen(p)
    \/ \E p \in Procs : LoadLock(p)
    \/ \E p \in Procs : LoadRead(p)
    \/ \E p \in Procs : LoadUnlock(p)
    \/ \E p \in Procs, t \in {now, now + 1} : t <= MaxTime /\ Compose(p, t)
    \/ \E p \in Procs : SaveTmp(p)
    \/ \E p \in Procs : SaveOpen(p)
    \/ \E p \in Procs : SaveLock(p)
    \/ \E p \in Procs : SaveCopyOpen(p)
    \/ \E p \in Procs : SaveCopyWrite(p)
    \/ \E p \in Procs : SaveCopyRest(p)
    \/ \E p \in Procs : SaveUnlock(p)
    \/ \E p \in Procs : SaveUnlink(p)
    \/ \E p \in Procs : Crash(p)

SpecConc == InitConc /\ [][NextConc]_vars

(***************************************************************************)
(* The store on a host whose incidents file gets lost or damaged: the      *)
(* operations run one after the other, the file system may refuse a save,  *)
(* and between two operations the file may be deleted, made unreadable or  *)
(* overwritten with bytes that are no JSON text.                           *)
(***************************************************************************)
FaultyKinds == {"missing", "unreadable", "garbage", "empty", "partial"}

FaultyFiles ==
    {[kind |-> k, doc |-> EmptyDict] :
        k \in {"missing", "unreadable", "garbage", "empty"}}
    \cup {PartialFile(TrackedOnce.doc)}

InitFaulty ==
    /\ file \in FaultyFiles
    /\ now = 0
    /\ last = NoCall
    /\ prior = NoCall
    /\ node = [j \in RunJobIds |-> "APPROVED"]
    /\ run = NoRun
    /\ ProcsIdle

Load ==
    LET r == LoadOpenIncidents(file)
    IN /\ last' = LoadCall(r.val, r.raised, file)
       /\ prior' = last
       /\ UNCHANGED <<file, now, runVars, procVars>>

TrackOn(service, network, job_id, error_msg, env) ==
    \E ts \in ClockReads(TrackReads(LoadOpenIncidents(file).val,
                                    Key(service, network), job_id), now) :
        LET r == TrackIncident(file, service, network, job_id, error_msg, ts, env)
        IN /\ file' = r.file
           /\ now' = LastRead(ts, now)
           /\ last' = Call("track", service, network, job_id, error_msg,
                           r.ret, r.raised, file)
           /\ prior' = last
           /\ UNCHANGED <<runVars, procVars>>

RemoveOn(service, network, job_id, env) ==
    LET r == RemoveIncident(file, service, network, job_id, env)
    IN /\ file' = r.file
       /\ last' = Call("remove", service, network, job_id, NoneValue,
                       FALSE, r.raised, file)
       /\ prior' = last
       /\ UNCHANGED <<now, runVars, procVars>>

Check(service, network) ==
    LET r == CheckOpenIncidents(file, node, service, network)
    IN /\ file' = r.file
       /\ last' = Call("check", service, network, "", NoneValue,
                       FALSE, r.raised, file)
       /\ prior' = last
       /\ UNCHANGED <<now, runVars, procVars>>

\* The file is deleted, damaged or made unreadable.
Damage(f) ==
    /\ file # f
    /\ file' = f
    /\ UNCHANGED <<now, seqVars, runVars, procVars>>

NextFaulty ==
    \/ Load
    \/ \E s \in Services, n \in RunNetworks, j \in JobIds, env \in SaveEnvs :
           TrackOn(s, n, j, "boom", env)
    \/ \E s \in Services, n \in RunNetworks, j \in JobIds, env \in SaveEnvs :
           RemoveOn(s, n, j, env)
    \/ \E s \in Services, n \in RunNetworks : Check(s, n)
    \/ \E f \in FaultyFiles : Damage(f)

SpecFaulty == InitFaulty /\ [][NextFaulty]_vars

(***************************************************************************)
(* The store on a host whose incidents file was written by an earlier      *)
(* version: the scope entry is a list of job ids.  The operations run one  *)
(* after the other on a healthy file system.                               *)
(***************************************************************************)
LegacyLists == {<<"job1">>, <<"job1", "job2">>}

LegacyFile(ids) ==
    DocFile([k \in {Key(ConcService, ConcNetwork)} |-> ListEntry(ids)])

\* The scope entry of a document is in the legacy shape.
IsLegacy(f, service, network) ==
    LET incidents == LoadOpenIncidents(f).val
        key == Key(service, network)
    IN key \in DOMAIN incidents /\ incidents[key].shape = "list"

InitLegacy ==
    /\ file \in {LegacyFile(ids) : ids \in LegacyLists}
    /\ now = 0
    /\ last = NoCall
    /\ prior = NoCall
    /\ node \in [RunJobIds -> {"PENDING", "APPROVED"}]
    /\ run = NoRun
    /\ ProcsIdle

NextLegacy ==
    \/ \E s \in Services, n \in RunNetworks, j \in JobIds, e \in ErrorTexts :
           Track(s, n, j, e)
    \/ \E s \in Services, n \in RunNetworks, j \in JobIds : Remove(s, n, j)
    \/ \E s \in Services, n \in RunNetworks : Check(s, n)

SpecLegacy == InitLegacy /\ [][NextLegacy]_vars

(***************************************************************************)
(* save_open_incidents and load_open_incidents called directly, one after  *)
(* the other by one process, with store values of both shapes.             *)
(***************************************************************************)
StoredRecords ==
    {Record(e, 1, l) : e \in {NoneValue, "boom"}, l \in {1, MaxTime}}

StoredEntries ==
    {ListEntry(ids) : ids \in LegacyLists \cup {<< >>}}
    \cup {DictEntry(recs) : recs \in UNION {[js -> StoredRecords] : js \in SUBSET JobIds}}

StoreValues ==
    {EmptyDict}
    \cup {[k \in {Key(ConcService, ConcNetwork)} |-> e] : e \in StoredEntries}

\* A call of save_open_incidents, the value it was given and whether the
\* file system let it write.
SaveCall(val, env, raised) ==
    [NoCall EXCEPT !.op = "save", !.val = val, !.raised = raised, !.ret = (env = "ok")]

InitRoundTrip ==
    /\ file \in {MissingFile, EmptyFile, GarbageFile}
    /\ now = 0
    /\ last = NoCall
    /\ prior = NoCall
    /\ node = [j \in RunJobIds |-> "GONE"]
    /\ run = NoRun
    /\ ProcsIdle

Save(incidents, env) ==
    LET r == SaveOpenIncidents(file, incidents, env)
    IN /\ file' = r.file
       /\ last' = SaveCall(incidents, env, r.raised)
       /\ prior' = last
       /\ UNCHANGED <<now, runVars, procVars>>

NextRoundTrip ==
    \/ \E v \in StoreValues, env \in {"ok", "open_fail"} : Save(v, env)
    \/ Load

SpecRoundTrip == InitRoundTrip /\ [][NextRoundTrip]_vars

(***************************************************************************)
(* One job of an executing batch, call by call.  The node's answers for a  *)
(* job are: first, what the first approve_job does ("ok"; "error", a       *)
(* rejection that names no bridge; "bridge", the bridge-missing rejection; *)
(* "exception", the call raises); bridges, what create_bridge does for     *)
(* each bridge the rejection reports missing ("created", "failed", or      *)
(* "unconfigured" when no bridge group holds the bridge, so that no call   *)
(* is made); retry, what the second approve_job does.                      *)
(***************************************************************************)
MaxBridges == 2

BridgeResults == {"created", "failed", "unconfigured"}

ApproveAnswers == {"ok", "error", "bridge", "exception"}

JobAnswer(first, bridges, retry) ==
    [first |-> first, bridges |-> bridges, retry |-> retry]

JobAnswers ==
    {JobAnswer(first, << >>, "ok") : first \in {"ok", "error", "exception"}}
    \cup {JobAnswer("bridge", bridges, retry) :
            bridges \in UNION {[1..n -> BridgeResults] : n \in 0..MaxBridges},
            retry \in ApproveAnswers}

Count(q, x) == Cardinality({i \in 1..Len(q) : q[i] = x})

\* bridge_ops.create_missing_bridges: True when every missing bridge was
\* created (and there was one); a bridge found in no group is not attempted.
CreateMissingBridges(bridges) ==
    [ret |-> Len(bridges) > 0 /\ Count(bridges, "created") = Len(bridges),
     created |-> Count(bridges, "created"),
     create_calls |-> Len(bridges) - Count(bridges, "unconfigured")]

\* What one pass of the loop did for a job.
Attempt(approved, approve_calls, repair_calls, repair) ==
    [succeeded |-> approved, approve_calls |-> approve_calls, cancel_calls |-> 0,
     repair_calls |-> repair_calls, created |-> repair.created,
     create_calls |-> repair.create_calls]

NoRepair == [ret |-> FALSE, created |-> 0, create_calls |-> 0]

\* approve_jobs lines 309-400 with the approval tried again as long as the
\* node rejects it.
ApproveAttemptRetriesAgain(answer) ==
    IF answer.first = "ok" THEN Attempt(TRUE, 1, 0, NoRepair)
    ELSE IF answer.first \in {"error", "exception"} THEN Attempt(FALSE, 1, 0, NoRepair)
    ELSE LET repair == CreateMissingBridges(answer.bridges)
         IN IF ~repair.ret THEN Attempt(FALSE, 1, 1, repair)
            ELSE IF answer.retry = "ok" THEN Attempt(TRUE, 2, 1, repair)
            ELSE Attempt(FALSE, 3, 1, repair)

\* approve_jobs lines 309-400 for one job.
ApproveAttempt(answer) ==
    IF answer.first = "ok" THEN Attempt(TRUE, 1, 0, NoRepair)
    ELSE IF answer.first \in {"error", "exception"} THEN Attempt(FALSE, 1, 0, NoRepair)
    ELSE LET repair == CreateMissingBridges(answer.bridges)
         IN IF ~repair.ret THEN Attempt(FALSE, 1, 1, repair)
            ELSE Attempt(answer.retry = "ok", 2, 1, repair)

\* reapprove_cmd.execute lines 170-200 for one job.
ReapproveAttempt(answer) ==
    IF answer.first = "ok" THEN Attempt(TRUE, 1, 0, NoRepair)
    ELSE IF answer.first \in {"error", "exception"} THEN Attempt(FALSE, 1, 0, NoRepair)
    ELSE LET repair == CreateMissingBridges(answer.bridges)
         IN IF ~repair.ret THEN Attempt(FALSE, 1, 1, repair)
            ELSE Attempt(answer.retry = "ok", 2, 1, repair)

\* cancel_jobs lines 232-243 for one job: one cancel_job call.
CancelAttempt(answer) ==
    [succeeded |-> answer.first = "ok", approve_calls |-> 0, cancel_calls |-> 1,
     repair_calls |-> 0, created |-> 0, create_calls |-> 0]

(***************************************************************************)
(* The batches, job by job.  A command run (cl_jobs main with its          *)
(* approve_jobs, the cancel command with cancel_jobs, the reapprove        *)
(* command) has matched `size` jobs; it lists them, and when it executes   *)
(* it acts on them in order, the node answering each one.  run holds the   *)
(* run in progress: its counters, and the last job's answer and attempt.   *)
(***************************************************************************)
MaxBatch == 3

Commands == {"cl_jobs", "reapprove", "cancel"}

NoAttempt ==
    [succeeded |-> FALSE, approve_calls |-> 0, cancel_calls |-> 0,
     repair_calls |-> 0, created |-> 0, create_calls |-> 0]

NoAnswer == JobAnswer("none", << >>, "ok")

\* The gate of main with the flag ignored.
MainGateOpen(execute_flag) == TRUE

\* main lines 617-622: without the execute flag the jobs are only logged.
MainGate(execute_flag) == execute_flag

\* cancel_cmd.execute lines 106-115.
CancelGate(execute) == execute

\* reapprove_cmd.execute lines 159-162.
ReapproveGate(execute) == execute

Gate(command, execute) ==
    IF command = "cl_jobs" THEN MainGate(execute)
    ELSE IF command = "cancel" THEN CancelGate(execute)
    ELSE ReapproveGate(execute)

AttemptOf(command, answer) ==
    IF command = "cl_jobs" THEN ApproveAttempt(answer)
    ELSE IF command = "cancel" THEN CancelAttempt(answer)
    ELSE ReapproveAttempt(answer)

\* The except clause of the loop body with the exception passed on.
AfterExceptionStops(answer) == answer.first # "exception"

\* Lines 394-400 of approve_jobs, 241-243 of cancel_jobs, 201-203 of
\* reapprove_cmd.execute: the exception is caught and the loop goes on.
AfterException(answer) == TRUE

\* Where a request comes from: the scheduler (it starts cl_jobs.py without
\* arguments), a command line, the Slack command executor, or the direct
\* Slack handlers.
Entries == {"scheduler", "cli", "slack_executor", "slack_direct"}

EntryCommands(entry) ==
    IF entry = "scheduler" THEN {"cl_jobs"}
    ELSE IF entry = "cli" THEN Commands
    ELSE {"cancel", "reapprove"}

\* The execute flag the command runs with.  asked: the request asks for
\* execution (--execute on the command line or in the Slack text, EXECUTE=1
\* in the environment of cl_jobs.py).  cl_jobs.py: `args.execute or EXECUTE`;
\* the commands: the store_true flag; the Slack command executor:
\* `args.get("execute", True)`; the direct Slack handlers act without
\* looking at any flag.
ExecuteFlag(entry, asked) ==
    IF entry \in {"scheduler", "cli"} THEN asked ELSE TRUE

StartCommand(command, entry, asked, size) ==
    /\ run = NoRun
    /\ command \in EntryCommands(entry)
    /\ run' = [command |-> command, entry |-> entry, asked |-> asked,
               execute |-> ExecuteFlag(entry, asked), size |-> size,
               phase |-> "listed", done |-> 0, succeeded |-> 0, failed |-> 0,
               approve_calls |-> 0, cancel_calls |-> 0, create_calls |-> 0,
               answer |-> NoAnswer, attempt |-> NoAttempt]
    /\ UNCHANGED <<file, now, seqVars, node, procVars>>

\* One pass of the loop: the next job of the batch.
Act(answer) ==
    /\ run # NoRun
    /\ run.phase \in {"listed", "acting"}
    /\ Gate(run.command, run.execute)
    /\ run.done < run.size
    /\ run.command = "cancel" => answer.first # "bridge"
    /\ LET attempt == AttemptOf(run.command, answer)
       IN run' = [run EXCEPT
                     !.phase = IF AfterException(answer) THEN "acting" ELSE "raised",
                     !.done = @ + 1,
                     !.succeeded = @ + (IF attempt.succeeded THEN 1 ELSE 0),
                     !.failed = @ + (IF attempt.succeeded THEN 0 ELSE 1),
                     !.approve_calls = @ + attempt.approve_calls,
                     !.cancel_calls = @ + attempt.cancel_calls,
                     !.create_calls = @ + attempt.create_calls,
                     !.answer = answer,
                     !.attempt = attempt]
    /\ UNCHANGED <<file, now, seqVars, node, procVars>>

\* The command returns: after the listing of a dry run, or after the loop,
\* with its summary of the counters.
Finish ==
    /\ run # NoRun
    /\ run.phase \in {"listed", "acting"}
    /\ ~Gate(run.command, run.execute) \/ run.done = run.size
    /\ run' = [run EXCEPT !.phase = "finished"]
    /\ UNCHANGED <<file, now, seqVars, node, procVars>>

\* The process ends.
Exit ==
    /\ run # NoRun
    /\ run.phase \in {"finished", "raised"}
    /\ run' = NoRun
    /\ UNCHANGED <<file, now, seqVars, node, procVars>>

NextBatch ==
    \/ \E command \in Commands, entry \in Entries, asked \in BOOLEAN,
          size \in 0..MaxBatch : StartCommand(command, entry, asked, size)
    \/ \E answer \in JobAnswers : Act(answer)
    \/ Finish
    \/ Exit

SpecBatch == Init /\ [][NextBatch]_vars

(***************************************************************************)
(* One run of main over the hosts of load_hosts (lines 585-637), host by   *)
(* host.  Every host has its own node; the incidents file is shared.       *)
(***************************************************************************)
\* load_hosts: the (service, network) scopes, in the order of the list.
Hosts ==
    <<[service |-> "OCR", network |-> "ETH"], [service |-> "OCR", network |-> "BSC"]>>

\* What authenticate meets: the node accepts the credentials, answers with
\* another status than 200, or cannot be reached.
AuthAnswers == {"ok", "rejected", "unreachable"}

\* chainlink_api.authenticate: True or the session when accepted, False
\* when rejected, None when the retries of a connection error are used up;
\* main tests `not auth_result`.
Authenticate(answer) == answer = "ok"

\* The proposals of the hosts' nodes in these runs.
HostNodes == [RunJobIds -> {"PENDING", "APPROVED"}]

\* The incidents file main may start from: none, or the legacy list of the
\* first scope.
HostFiles == {MissingFile, LegacyFile(<<"job1">>)}

NoMain ==
    [phase |-> "none", host |-> 0, processed |-> {}, stopped |-> 0,
     execute |-> FALSE, suppress |-> FALSE]

InitHosts ==
    /\ file \in HostFiles
    /\ now = 0
    /\ last = NoCall
    /\ prior = NoCall
    /\ node = [j \in RunJobIds |-> "PENDING"]
    /\ run = NoMain
    /\ ProcsIdle

\* Lines 566-585: the arguments are parsed and the hosts loaded.
StartMain(execute_flag, suppress_notifications) ==
    /\ run.phase = "none"
    /\ run' = [NoMain EXCEPT !.phase = "hosts", !.host = 1,
                             !.execute = execute_flag,
                             !.suppress = suppress_notifications]
    /\ UNCHANGED <<file, now, seqVars, node, procVars>>

\* Lines 586-633: the body of the loop for the next host.  An exception
\* that leaves the body leaves the loop and main.
Host(answer, nd, outcomes) ==
    /\ run.phase = "hosts"
    /\ run.host <= Len(Hosts)
    /\ \E r \in {MainHost(file, now, nd, Hosts[run.host].service,
                        Hosts[run.host].network, Authenticate(answer),
                        run.execute, run.suppress, outcomes)} :
        /\ r.t <= MaxTime
        /\ file' = r.file
        /\ now' = r.t
        /\ node' = r.nd
        /\ run' = IF r.raised
                  THEN [run EXCEPT !.phase = "raised", !.stopped = run.host]
                  ELSE [run EXCEPT !.host = run.host + 1,
                                   !.processed = run.processed \cup {run.host}]
    /\ UNCHANGED <<seqVars, procVars>>

\* Lines 635-637: the loop is over, "Chainlink Job Manager Complete".
Complete ==
    /\ run.phase = "hosts"
    /\ run.host > Len(Hosts)
    /\ run' = [run EXCEPT !.phase = "complete"]
    /\ UNCHANGED <<file, now, seqVars, node, procVars>>

\* The process ends, by returning from main or with the exception.
ExitMain ==
    /\ run.phase \in {"complete", "raised"}
    /\ run' = NoMain
    /\ UNCHANGED <<file, now, seqVars, node, procVars>>

NextHosts ==
    \/ \E execute_flag \in BOOLEAN, suppress_notifications \in BOOLEAN :
          StartMain(execute_flag, suppress_notifications)
    \/ \E answer \in AuthAnswers, nd \in HostNodes :
          \E outcomes \in Answers(nd, Authenticate(answer), run.execute) :
              Host(answer, nd, outcomes)
    \/ Complete
    \/ ExitMain

SpecHosts == InitHosts /\ [][NextHosts]_vars

(***************************************************************************)
(* The selection functions: get_jobs_to_cancel (commands/cancel_cmd.py and *)
(* cl_delete_jobs.py) and get_jobs_to_reapprove (commands/reapprove_cmd.py *)
(* and cl_reapprove_jobs.py), each called on the proposals one fetch_jobs  *)
(* call returned.                                                          *)
(***************************************************************************)
\* str.lower() on the identifiers of these runs.
Lower(x) == IF x = "0xAB" THEN "0xab" ELSE IF x = "ETH" THEN "eth" ELSE x

\* The job names of these runs, in alphabetical order, each with the
\* identifiers that are substrings of its lower-case form.
JobNames ==
    <<[text |-> "btc / usd", contains |-> {}],
      [text |-> "eth / usd", contains |-> {"eth"}],
      [text |-> "eth / usd | contract 0xab", contains |-> {"eth", "0xab"}],
      [text |-> "eth / usd | contract 0xab | proxy 0xcd",
       contains |-> {"eth", "0xab", "0xcd"}],
      [text |-> "link / usd | contract 0xab | proxy 0xcd",
       contains |-> {"0xab", "0xcd"}]>>

\* `x in job_name`, for a job name that was lower-cased.
InName(x, name) == x \in JobNames[name].contains

\* The id of the latest spec of a proposal.
SpecId(job_id) == "spec-" \o job_id

\* A proposal as fetch_jobs returns it; has_spec: latestSpec and specs are
\* there.
Proposal(id, name, status, pendingUpdate, has_spec) ==
    [id |-> id, name |-> name, status |-> status, pendingUpdate |-> pendingUpdate,
     has_spec |-> has_spec]

ProposalsOf(id) ==
    {Proposal(id, name, status, pendingUpdate, has_spec) :
        name \in DOMAIN JobNames, status \in {"APPROVED", "CANCELLED"},
        pendingUpdate \in BOOLEAN, has_spec \in BOOLEAN}

\* What fetch_jobs returned: one proposal, or two with different ids.
JobLists ==
    {<<a>> : a \in ProposalsOf("1")}
    \cup {<<a, b>> : a \in ProposalsOf("1"),
                     b \in {p \in ProposalsOf("2") : p.has_spec /\ ~p.pendingUpdate}}

\* The identifier lists of a request: feed ids (without duplicates, as
\* load_feed_ids keeps them) and text patterns.
FeedIdLists == {<< >>, <<"0xab">>, <<"0xAB", "0xcd">>, <<"0xab", "0xAB">>}

PatternLists == {<< >>, <<"eth">>, <<"ETH", "0xcd">>}

\* The position of the first list element the test accepts, 0 if none: a
\* for loop that breaks at the first match.
\* lowered: the element is lower-cased before it is looked for in the name.
RECURSIVE FirstMatch(_, _, _, _)
FirstMatch(list, i, lowered, name) ==
    IF i > Len(list) THEN 0
    ELSE IF InName(IF lowered THEN Lower(list[i]) ELSE list[i], name) THEN i
    ELSE FirstMatch(list, i + 1, lowered, name)

NoMatch == [reason |-> NoneValue, identifier |-> NoneValue]

Matched(reason, identifier) == [reason |-> reason, identifier |-> identifier]

\* cancel_cmd lines 181-202 with the identifier lists looked at before the
\* explicit job id.
CancelMatchIdLast(job, feed_ids_to_cancel, non_hex_patterns, job_id) ==
    LET f == FirstMatch(feed_ids_to_cancel, 1, TRUE, job.name)
        p == FirstMatch(non_hex_patterns, 1, TRUE, job.name)
    IN IF f > 0 THEN Matched("feed ID", feed_ids_to_cancel[f])
       ELSE IF p > 0 THEN Matched("pattern", non_hex_patterns[p])
       ELSE IF job_id # NoneValue /\ job.id = job_id THEN Matched("job ID", job_id)
       ELSE NoMatch

\* cancel_cmd lines 181-202: the explicit job id, else the first feed id in
\* the name, and when nothing matched so far the first pattern in the name.
CancelMatch(job, feed_ids_to_cancel, non_hex_patterns, job_id) ==
    LET f == FirstMatch(feed_ids_to_cancel, 1, TRUE, job.name)
        p == FirstMatch(non_hex_patterns, 1, TRUE, job.name)
        first == IF job_id # NoneValue /\ job.id = job_id THEN Matched("job ID", job_id)
                 ELSE IF f > 0 THEN Matched("feed ID", feed_ids_to_cancel[f])
                 ELSE NoMatch
    IN IF first = NoMatch /\ p > 0 THEN Matched("pattern", non_hex_patterns[p])
       ELSE first

\* The tuple appended for a matched job.
CancelAction(job, m) ==
    [job_id |-> job.id, latest_spec_id |-> SpecId(job.id), job_name |-> job.name,
     matched_identifier |-> m.identifier, match_reason |-> m.reason]

\* list.sort(key=name): a stable insertion sort on the job name.
RECURSIVE InsertByName(_, _)
InsertByName(sorted, a) ==
    IF Len(sorted) = 0 THEN <<a>>
    ELSE IF sorted[Len(sorted)].job_name <= a.job_name THEN Append(sorted, a)
    ELSE Append(InsertByName(SubSeq(sorted, 1, Len(sorted) - 1), a),
                sorted[Len(sorted)])

RECURSIVE SortByName(_)
SortByName(actions) ==
    IF Len(actions) = 0 THEN << >>
    ELSE InsertByName(SortByName(SubSeq(actions, 1, Len(actions) - 1)),
                      actions[Len(actions)])

\* cancel_cmd.get_jobs_to_cancel, lines 151-215.
GetJobsToCancel(jobs, feed_ids_to_cancel, non_hex_patterns, job_id) ==
    LET CancelOne(job) ==
            LET m == CancelMatch(job, feed_ids_to_cancel, non_hex_patterns, job_id)
            IN IF job.status # "APPROVED" THEN << >>
               ELSE IF m # NoMatch /\ job.has_spec THEN <<CancelAction(job, m)>>
               ELSE << >>
    IN SortByName(Concat([i \in 1..Len(jobs) |-> CancelOne(jobs[i])]))

\* cl_delete_jobs.get_jobs_to_cancel, lines 262-322: the same selection on
\* the script's globals FEED_IDS_TO_CANCEL, NON_HEX_PATTERNS and args.job_id.
DeleteGetJobsToCancel(jobs, FEED_IDS_TO_CANCEL, NON_HEX_PATTERNS, job_id) ==
    LET CancelOne(job) ==
            LET m == CancelMatch(job, FEED_IDS_TO_CANCEL, NON_HEX_PATTERNS, job_id)
            IN IF job.status # "APPROVED" THEN << >>
               ELSE IF m # NoMatch /\ job.has_spec THEN <<CancelAction(job, m)>>
               ELSE << >>
    IN SortByName(Concat([i \in 1..Len(jobs) |-> CancelOne(jobs[i])]))

\* reapprove_cmd lines 226-236: force, a pending update or a cancelled
\* proposal.
ShouldProcess(job, force) ==
    force \/ job.pendingUpdate \/ job.status = "CANCELLED"

\* reapprove_cmd lines 242-264.  The feed ids are compared as given with the
\* lower-cased name; the patterns are lower-cased first.
ReapproveMatch(job, feed_ids, patterns) ==
    LET f == FirstMatch(feed_ids, 1, FALSE, job.name)
        p == FirstMatch(patterns, 1, TRUE, job.name)
    IN IF Len(feed_ids) = 0 /\ Len(patterns) = 0 THEN Matched("all jobs", NoneValue)
       ELSE IF f > 0 THEN Matched("feed ID", feed_ids[f])
       ELSE IF p > 0 THEN Matched("pattern", patterns[p])
       ELSE NoMatch

\* reapprove_cmd.get_jobs_to_reapprove, lines 211-286.
GetJobsToReapprove(jobs, feed_ids, patterns, force) ==
    LET ReapproveOne(job) ==
            LET m == ReapproveMatch(job, feed_ids, patterns)
            IN IF ShouldProcess(job, force) /\ m # NoMatch /\ job.has_spec
               THEN <<CancelAction(job, m)>>
               ELSE << >>
    IN Concat([i \in 1..Len(jobs) |-> ReapproveOne(jobs[i])])

\* cl_reapprove_jobs.get_jobs_to_reapprove, lines 236-264: for a cancelled
\* proposal, one tuple for every feed id found in its name.
ScriptGetJobsToReapprove(jobs, feed_ids) ==
    LET PerFeedId(job, i) ==
            IF InName(Lower(feed_ids[i]), job.name) /\ job.has_spec
            THEN <<CancelAction(job, Matched("feed ID", feed_ids[i]))>>
            ELSE << >>
        ReapproveOne(job) ==
            IF job.status = "CANCELLED"
            THEN Concat([i \in 1..Len(feed_ids) |-> PerFeedId(job, i)])
            ELSE << >>
    IN SortByName(Concat([i \in 1..Len(jobs) |-> ReapproveOne(jobs[i])]))

NoSelection ==
    [op |-> "none", jobs |-> << >>, feed_ids |-> << >>, patterns |-> << >>,
     job_id |-> NoneValue, force |-> FALSE, actions |-> << >>]

InitMatch ==
    /\ file = MissingFile
    /\ now = 0
    /\ last = NoCall
    /\ prior = NoCall
    /\ node = [j \in RunJobIds |-> "PENDING"]
    /\ run = NoSelection
    /\ ProcsIdle

\* One call of a selection function and the list it returns.
Selected(op, jobs, feed_ids, patterns, job_id, force, actions) ==
    /\ run = NoSelection
    /\ run' = [op |-> op, jobs |-> jobs, feed_ids |-> feed_ids, patterns |-> patterns,
               job_id |-> job_id, force |-> force, actions |-> actions]
    /\ UNCHANGED <<file, now, seqVars, node, procVars>>

SelectCancel(jobs, feed_ids, patterns, job_id) ==
    Selected("cancel_cmd", jobs, feed_ids, patterns, job_id, FALSE,
             GetJobsToCancel(jobs, feed_ids, patterns, job_id))

SelectDelete(jobs, feed_ids, patterns, job_id) ==
    Selected("cl_delete_jobs", jobs, feed_ids, patterns, job_id, FALSE,
             DeleteGetJobsToCancel(jobs, feed_ids, patterns, job_id))

SelectReapprove(jobs, feed_ids, patterns, force) ==
    Selected("reapprove_cmd", jobs, feed_ids, patterns, NoneValue, force,
             GetJobsToReapprove(jobs, feed_ids, patterns, force))

\* load_feed_ids of the script exits when the file holds no feed id.
SelectScriptReapprove(jobs, feed_ids) ==
    /\ Len(feed_ids) > 0
    /\ Selected("cl_reapprove_jobs", jobs, feed_ids, << >>, NoneValue, FALSE,
                ScriptGetJobsToReapprove(jobs, feed_ids))

\* The caller has used the list.
Return ==
    /\ run # NoSelection
    /\ run' = NoSelection
    /\ UNCHANGED <<file, now, seqVars, node, procVars>>

NextMatch ==
    \/ /\ run = NoSelection
       /\ \E jobs \in JobLists, feed_ids \in FeedIdLists, patterns \in PatternLists,
             job_id \in {NoneValue, "1"} :
             SelectCancel(jobs, feed_ids, patterns, job_id)
    \/ /\ run = NoSelection
       /\ \E jobs \in JobLists, feed_ids \in FeedIdLists, patterns \in PatternLists,
             job_id \in {NoneValue, "1"} :
             SelectDelete(jobs, feed_ids, patterns, job_id)
    \/ /\ run = NoSelection
       /\ \E jobs \in JobLists, feed_ids \in FeedIdLists, patterns \in PatternLists,
             force \in BOOLEAN : SelectReapprove(jobs, feed_ids, patterns, force)
    \/ /\ run = NoSelection
       /\ \E jobs \in JobLists, feed_ids \in FeedIdLists :
             SelectScriptReapprove(jobs, feed_ids)
    \/ Return

SpecMatch == InitMatch /\ [][NextMatch]_vars

(***************************************************************************)
(* The unmatched-identifier report of a command that walks the feeds       *)
(* managers of a node: cancel_cmd.execute, the main part of                *)
(* cl_delete_jobs.py, reapprove_cmd.execute and the main part of           *)
(* cl_reapprove_jobs.py.                                                   *)
(***************************************************************************)
\* What fetch_jobs returns for one feeds manager in these runs.
ReportJobLists ==
    {<< >>} \cup {<<a>> : a \in {p \in ProposalsOf("1") : ~p.pendingUpdate}}

\* matched_feed_ids / matched_patterns of get_jobs_to_cancel: the
\* identifiers of the jobs matched for this reason, with or without a spec.
CancelMatchedSet(jobs, feed_ids_to_cancel, non_hex_patterns, job_id, reason) ==
    {CancelMatch(jobs[i], feed_ids_to_cancel, non_hex_patterns, job_id).identifier :
        i \in {k \in 1..Len(jobs) :
                  /\ jobs[k].status = "APPROVED"
                  /\ CancelMatch(jobs[k], feed_ids_to_cancel, non_hex_patterns,
                                 job_id).reason = reason}}

\* matched_feed_ids / matched_patterns of reapprove_cmd.get_jobs_to_reapprove.
ReapproveMatchedSet(jobs, feed_ids, patterns, force, reason) ==
    {ReapproveMatch(jobs[i], feed_ids, patterns).identifier :
        i \in {k \in 1..Len(jobs) :
                  /\ ShouldProcess(jobs[k], force)
                  /\ ReapproveMatch(jobs[k], feed_ids, patterns).reason = reason}}

\* matched_feed_ids of cl_reapprove_jobs.get_jobs_to_reapprove (line 251).
ScriptMatchedSet(jobs, feed_ids) ==
    {a.matched_identifier : a \in SeqToSet(ScriptGetJobsToReapprove(jobs, feed_ids))}

\* The elements of a list that are not in a set: [x for x in list if x not
\* in matched].
NotIn(list, matched) == {list[i] : i \in 1..Len(list)} \ matched

\* reapprove_cmd lines 61-74: the feed ids are lower-cased and the
\* duplicates removed (the order of list(set(...)) is not defined; the
\* first occurrences are kept here).
RECURSIVE LowerUnique(_)
LowerUnique(feed_ids) ==
    IF Len(feed_ids) = 0 THEN << >>
    ELSE LET front == LowerUnique(SubSeq(feed_ids, 1, Len(feed_ids) - 1))
             x == Lower(feed_ids[Len(feed_ids)])
         IN IF x \in SeqToSet(front) THEN front ELSE Append(front, x)

\* cancel_cmd.execute lines 78-133: the matched sets of every feeds manager
\* are united, and the identifiers outside the union reported.
CancelReport(fms, feed_ids, patterns, job_id) ==
    [matched_feed_ids |->
        [k \in 1..Len(fms) |-> CancelMatchedSet(fms[k], feed_ids, patterns, job_id, "feed ID")],
     matched_patterns |->
        [k \in 1..Len(fms) |-> CancelMatchedSet(fms[k], feed_ids, patterns, job_id, "pattern")],
     unmatched_feed_ids |->
        NotIn(feed_ids, UNION {CancelMatchedSet(fms[k], feed_ids, patterns, job_id,
                                                "feed ID") : k \in 1..Len(fms)}),
     unmatched_patterns |->
        NotIn(patterns, UNION {CancelMatchedSet(fms[k], feed_ids, patterns, job_id,
                                                "pattern") : k \in 1..Len(fms)})]

\* cl_delete_jobs.py lines 406-439: the matched identifiers are collected
\* from the tuples of the jobs to cancel.
DeleteReport(fms, feed_ids, patterns, job_id) ==
    LET Identifiers(k, reason) ==
            {a.matched_identifier :
                a \in {b \in SeqToSet(DeleteGetJobsToCancel(fms[k], feed_ids, patterns,
                                                           job_id)) :
                          b.match_reason = reason}}
    IN [matched_feed_ids |-> [k \in 1..Len(fms) |-> Identifiers(k, "feed ID")],
        matched_patterns |-> [k \in 1..Len(fms) |-> Identifiers(k, "pattern")],
        unmatched_feed_ids |->
            NotIn(feed_ids, UNION {Identifiers(k, "feed ID") : k \in 1..Len(fms)}),
        unmatched_patterns |->
            NotIn(patterns, UNION {Identifiers(k, "pattern") : k \in 1..Len(fms)})]

\* reapprove_cmd.execute lines 100-144: the report is printed only when no
\* job is to be reapproved.
ReapproveReport(fms, feed_ids, patterns, force) ==
    LET none == \A k \in 1..Len(fms) :
                    Len(GetJobsToReapprove(fms[k], feed_ids, patterns, force)) = 0
        Set(k, reason) == ReapproveMatchedSet(fms[k], feed_ids, patterns, force, reason)
    IN [matched_feed_ids |-> [k \in 1..Len(fms) |-> Set(k, "feed ID")],
        matched_patterns |-> [k \in 1..Len(fms) |-> Set(k, "pattern")],
        unmatched_feed_ids |->
            IF none
            THEN NotIn(feed_ids, UNION {Set(k, "feed ID") : k \in 1..Len(fms)})
            ELSE {},
        unmatched_patterns |->
            IF none
            THEN NotIn(patterns, UNION {Set(k, "pattern") : k \in 1..Len(fms)})
            ELSE {}]

\* cl_reapprove_jobs.py lines 342-379: the unmatched list of every feeds
\* manager is appended to all_unmatched_feed_ids, and the duplicates removed.
ScriptReapproveReport(fms, feed_ids) ==
    [matched_feed_ids |-> [k \in 1..Len(fms) |-> ScriptMatchedSet(fms[k], feed_ids)],
     matched_patterns |-> [k \in 1..Len(fms) |-> {}],
     unmatched_feed_ids |->
        UNION {NotIn(feed_ids, ScriptMatchedSet(fms[k], feed_ids)) : k \in 1..Len(fms)},
     unmatched_patterns |-> {}]

\* One run of a command over the feeds managers, and its report.
Reported(op, fms, feed_ids, patterns, report) ==
    /\ run' = [op |-> op, fms |-> fms, feed_ids |-> feed_ids, patterns |-> patterns,
               report |-> report]
    /\ UNCHANGED <<file, now, seqVars, node, procVars>>

NextReport ==
    \/ /\ run = NoSelection
       /\ \E a \in ReportJobLists, b \in ReportJobLists, feed_ids \in FeedIdLists,
             patterns \in PatternLists, job_id \in {NoneValue, "1"} :
             Reported("cancel_cmd", <<a, b>>, feed_ids, patterns,
                      CancelReport(<<a, b>>, feed_ids, patterns, job_id))
    \/ /\ run = NoSelection
       /\ \E a \in ReportJobLists, b \in ReportJobLists, feed_ids \in FeedIdLists,
             patterns \in PatternLists, job_id \in {NoneValue, "1"} :
             Reported("cl_delete_jobs", <<a, b>>, feed_ids, patterns,
                      DeleteReport(<<a, b>>, feed_ids, patterns, job_id))
    \/ /\ run = NoSelection
       /\ \E a \in ReportJobLists, b \in ReportJobLists, feed_ids \in FeedIdLists,
             patterns \in PatternLists, force \in BOOLEAN :
             Reported("reapprove_cmd", <<a, b>>, LowerUnique(feed_ids), patterns,
                      ReapproveReport(<<a, b>>, LowerUnique(feed_ids), patterns, force))
    \/ /\ run = NoSelection
       /\ \E a \in ReportJobLists, b \in ReportJobLists, feed_ids \in FeedIdLists :
             /\ Len(feed_ids) > 0
             /\ Reported("cl_reapprove_jobs", <<a, b>>, feed_ids, << >>,
                         ScriptReapproveReport(<<a, b>>, feed_ids))
    \/ Return

SpecReport == InitMatch /\ [][NextReport]_vars

(***************************************************************************)
(* The selection functions on proposals whose latest spec may be missing.  *)
(* shape is what the proposal holds for its latest spec ("latestSpec", and *)
(* "specs" for reapprove_cmd): "id" a spec with an id, "no_id" a spec      *)
(* without an id, "null" the JSON value null, "absent" no such key.        *)
(***************************************************************************)
SpecShapes == {"id", "no_id", "null", "absent"}

\* cancel_cmd lines 204-210 (the same lines are in cl_delete_jobs.py and
\* cl_reapprove_jobs.py): job.get("latestSpec", {}).get("id").
CancelTake(shape) ==
    IF shape = "id" THEN "append"
    ELSE IF shape = "null" THEN "raise"
    ELSE "warn"

\* reapprove_cmd lines 266-284: the first of job['specs'] sorted by version,
\* with latest_spec.get('id', 'Unknown'); nothing is printed for a job
\* without specs.
ReapproveTake(shape) ==
    IF shape = "id" THEN "append"
    ELSE IF shape = "no_id" THEN "placeholder"
    ELSE "skip"

\* cl_jobs.get_jobs_to_approve lines 259-263: job["latestSpec"]["id"].
ApproveTake(shape) == IF shape = "id" THEN "append" ELSE "raise"

Take(op, shape) ==
    IF op = "get_jobs_to_cancel" THEN CancelTake(shape)
    ELSE IF op = "get_jobs_to_reapprove" THEN ReapproveTake(shape)
    ELSE ApproveTake(shape)

\* The proposals of one fetch: each matched by the criteria or not, and the
\* shape of its latest spec.
ShapedJobs == [1..3 -> [matched : BOOLEAN, shape : SpecShapes]]

\* One call of a selection function: the jobs are walked in order; an
\* exception leaves the function and nothing is returned.
SelectShaped(op, jobs) ==
    LET takes == [i \in 1..Len(jobs) |->
                     IF jobs[i].matched THEN Take(op, jobs[i].shape) ELSE "skip"]
        raised == \E i \in 1..Len(jobs) : takes[i] = "raise"
        walked == IF raised
                  THEN (CHOOSE i \in 1..Len(jobs) :
                           /\ takes[i] = "raise"
                           /\ \A k \in 1..(i - 1) : takes[k] # "raise") - 1
                  ELSE Len(jobs)
    IN /\ run = NoSelection
       /\ run' = [op |-> op, jobs |-> jobs, raised |-> raised,
                  listed |-> IF raised THEN {}
                             ELSE {i \in 1..Len(jobs) :
                                      takes[i] \in {"append", "placeholder"}},
                  placeholder |-> IF raised THEN {}
                                  ELSE {i \in 1..Len(jobs) : takes[i] = "placeholder"},
                  warned |-> {i \in 1..walked : takes[i] = "warn"}]
       /\ UNCHANGED <<file, now, seqVars, node, procVars>>

NextShaped ==
    \/ /\ run = NoSelection
       /\ \E jobs \in ShapedJobs : SelectShaped("get_jobs_to_cancel", jobs)
    \/ /\ run = NoSelection
       /\ \E jobs \in ShapedJobs : SelectShaped("get_jobs_to_reapprove", jobs)
    \/ /\ run = NoSelection
       /\ \E jobs \in ShapedJobs : SelectShaped("get_jobs_to_approve", jobs)
    \/ Return

SpecShaped == InitMatch /\ [][NextShaped]_vars

(***************************************************************************)
(* The selection criteria of the cancel and reapprove commands: what the   *)
(* command line names, what load_feed_ids makes of the feed-ids file, and  *)
(* the jobs selected with them.                                            *)
(***************************************************************************)
\* --feed-ids-file: not given, a file with a feed id and a pattern, a file
\* with comments only, or a path that cannot be opened.
FeedFiles == {"none", "listed", "blank", "unreadable"}

\* helpers.load_feed_ids, lines 188-271: ([], []) without a file name, for
\* a file without identifiers and when reading raises.
LoadFeedIds(feed_ids_file) ==
    IF feed_ids_file = "listed"
    THEN [feed_ids |-> <<"0xab">>, non_hex_patterns |-> <<"eth">>]
    ELSE [feed_ids |-> << >>, non_hex_patterns |-> << >>]

\* args.name_pattern appended to the patterns when given.
WithPattern(patterns, name_pattern) ==
    IF name_pattern = NoneValue THEN patterns ELSE Append(patterns, name_pattern)

\* cancel_cmd.execute lines 33-49 and 82-115: refused when none of the
\* three options is given; else the lists are loaded and the jobs selected
\* and, with --execute, cancelled.
CancelCommand(args, jobs) ==
    LET loaded == LoadFeedIds(args.feed_ids_file)
        feed_ids == loaded.feed_ids
        patterns == WithPattern(loaded.non_hex_patterns, args.name_pattern)
        refused == /\ args.feed_ids_file = "none"
                   /\ args.name_pattern = NoneValue
                   /\ args.job_id = NoneValue
        actions == IF refused THEN << >>
                   ELSE GetJobsToCancel(jobs, feed_ids, patterns, args.job_id)
    IN [feed_ids |-> feed_ids, patterns |-> patterns, job_id |-> args.job_id,
        refused |-> refused, actions |-> actions,
        calls |-> IF args.execute THEN Len(actions) ELSE 0]

\* reapprove_cmd.execute lines 57-74, 100-118 and 159-173 (there is no
\* --job-id and no check of the options).
ReapproveCommand(args, jobs) ==
    LET loaded == LoadFeedIds(args.feed_ids_file)
        feed_ids == LowerUnique(loaded.feed_ids)
        patterns == WithPattern(loaded.non_hex_patterns, args.name_pattern)
        actions == GetJobsToReapprove(jobs, feed_ids, patterns, args.force)
    IN [feed_ids |-> feed_ids, patterns |-> patterns, job_id |-> NoneValue,
        refused |-> FALSE, actions |-> actions,
        calls |-> IF args.execute THEN Len(actions) ELSE 0]

\* The command lines of these runs.
CommandLines ==
    [feed_ids_file : FeedFiles, name_pattern : {NoneValue, "eth"},
     job_id : {NoneValue, "1"}, force : BOOLEAN, execute : BOOLEAN]

\* One run of a command on a node with one feeds manager.
RunCommand(command, args, jobs) ==
    /\ run' = [command |-> command, args |-> args, jobs |-> jobs,
               result |-> IF command = "cancel" THEN CancelCommand(args, jobs)
                          ELSE ReapproveCommand(args, jobs)]
    /\ UNCHANGED <<file, now, seqVars, node, procVars>>

NextCriteria ==
    \/ /\ run = NoSelection
       /\ \E args \in CommandLines, jobs \in ReportJobLists :
             /\ ~args.force
             /\ RunCommand("cancel", args, jobs)
    \/ /\ run = NoSelection
       /\ \E args \in CommandLines, jobs \in ReportJobLists :
             /\ args.job_id = NoneValue
             /\ RunCommand("reapprove", args, jobs)
    \/ Return

SpecCriteria == InitMatch /\ [][NextCriteria]_vars

(***************************************************************************)
(* The bridge resolver: parse_bridge_error and create_missing_bridges on   *)
(* the error text of a rejected approval.  A text is modelled by its two   *)
(* bracketed lists: asked, the names of "asked for [...]", and exists, the *)
(* names that begin the entries of "exists [...]"; found tells whether    *)
(* the list is in the text.                                                *)
(***************************************************************************)
BridgeNames == {"bridge-a", "bridge-b", "coingecko"}

\* The name matches bridge-[^\s]+ .
BridgePrefixed(name) == name \in {"bridge-a", "bridge-b"}

NameLists ==
    {<< >>} \cup {<<a>> : a \in BridgeNames}
    \cup {q \in {<<a, b>> : a \in BridgeNames, b \in BridgeNames} : q[1] # q[2]}

\* A bracketed list of the text, and the list that is not there.
Bracketed(names) == [found |-> TRUE, names |-> names]

NotFound == [found |-> FALSE, names |-> << >>]

BracketedLists == {Bracketed(names) : names \in NameLists} \cup {NotFound}

BridgeErrorTexts == [asked : BracketedLists, exists : BracketedLists]

\* parse_bridge_error, lines 277-302: the asked-for names split at white
\* space, and of the entries of the exists list the names found by
\* \{(bridge-[^\s]+) ; an empty list for a list that is not found.
ParseBridgeError(error_message) ==
    [required_bridges |->
        IF error_message.asked.found THEN error_message.asked.names ELSE << >>,
     existing_bridges |->
        IF error_message.exists.found
        THEN SelectSeq(error_message.exists.names, BridgePrefixed)
        ELSE << >>]

\* Line 436 without the test against the existing bridges.
MissingBridgesAllRequired(required_bridges, existing_bridges) == required_bridges

\* Line 436: [b for b in required_bridges if b not in existing_bridges].
MissingBridges(required_bridges, existing_bridges) ==
    SelectSeq(required_bridges, LAMBDA b : b \notin SeqToSet(existing_bridges))

\* create_missing_bridges, lines 394-489.  created: what create_bridge
\* answers for each name (only the names in the configured groups are
\* tried).  The function returns a boolean.
ResolveMissingBridges(error_text, configured, created) ==
    LET parsed == ParseBridgeError(error_text)
        missing_bridges == MissingBridges(parsed.required_bridges, parsed.existing_bridges)
        success == {i \in 1..Len(missing_bridges) :
                       /\ missing_bridges[i] \in configured
                       /\ created[missing_bridges[i]]}
    IN [required_bridges |-> parsed.required_bridges,
        existing_bridges |-> parsed.existing_bridges,
        missing_bridges |-> missing_bridges,
        ret |-> IF Len(parsed.required_bridges) = 0 THEN FALSE
                ELSE IF Len(missing_bridges) = 0 THEN FALSE
                ELSE IF configured = {} THEN FALSE
                ELSE Cardinality(success) = Len(missing_bridges)]

\* One call of create_missing_bridges from approve_jobs (lines 341-365).
Resolve(error_text, configured, created) ==
    /\ run' = [error_text |-> error_text, configured |-> configured,
               created |-> created,
               result |-> ResolveMissingBridges(error_text, configured, created)]
    /\ UNCHANGED <<file, now, seqVars, node, procVars>>

NextResolve ==
    \/ /\ run = NoSelection
       /\ \E error_text \in BridgeErrorTexts,
             configured \in {{}, {"bridge-a", "bridge-b"}, BridgeNames},
             created \in [BridgeNames -> BOOLEAN] :
             /\ \A b \in BridgeNames \ configured : ~created[b]
             /\ Resolve(error_text, configured, created)
    \/ Return

SpecResolve == InitMatch /\ [][NextResolve]_vars

(***************************************************************************)
(* Bridge repair with the bridge groups of cl_hosts.json and               *)
(* cl_bridges.json: which bridges create_missing_bridges creates, and what *)
(* check_bridge_config reports.                                            *)
(***************************************************************************)
\* cl_bridges.json, "bridges": group -> (bridge name -> URL).
BridgesConfigs ==
    {[g \in {"g1", "g2", "other"} |->
         IF g = "g1" THEN [b \in {"bridge-a"} |-> "http://a1"]
         ELSE IF g = "g2"
         THEN [b \in {"bridge-a", "bridge-b"} |->
                  IF b = "bridge-a" THEN "http://a2" ELSE "http://b2"]
         ELSE [b \in {"bridge-b", "coingecko"} |->
                  IF b = "bridge-b" THEN "http://b-other" ELSE "http://c-other"]],
     [g \in {"g1", "other"} |->
         IF g = "g1" THEN [b \in {"bridge-b"} |-> "http://b1"]
         ELSE [b \in {"bridge-a"} |-> "http://a-other"]]}

\* get_bridge_groups, lines 184-227: the list of the node's entry, [] when
\* the service or node is not in cl_hosts.json, and None (no return
\* statement is reached) when the entry names no bridge group.
NodeGroups ==
    {[none |-> FALSE, groups |-> q] :
        q \in {<< >>, <<"g1">>, <<"g1", "g2">>, <<"g2", "g1">>, <<"g1", "gone">>}}
    \cup {[none |-> TRUE, groups |-> << >>]}

\* All groups read, whether they are the node's or not.
GetBridgesFromAllGroups(bridge_groups, bridges_config) ==
    [b \in UNION {DOMAIN bridges_config[g] : g \in DOMAIN bridges_config} |->
        bridges_config[CHOOSE g \in DOMAIN bridges_config :
                          b \in DOMAIN bridges_config[g]][b]]

\* get_bridges_from_groups, lines 229-275: the groups are merged in the
\* order of the list with dict.update; a group that is not configured is
\* skipped.
RECURSIVE GetBridgesFromGroups(_, _)
GetBridgesFromGroups(bridge_groups, bridges_config) ==
    IF Len(bridge_groups) = 0 THEN EmptyDict
    ELSE LET front == GetBridgesFromGroups(
                          SubSeq(bridge_groups, 1, Len(bridge_groups) - 1),
                          bridges_config)
             group == bridge_groups[Len(bridge_groups)]
         IN IF group \notin DOMAIN bridges_config THEN front
            ELSE bridges_config[group] @@ front

\* create_missing_bridges, lines 415-489: the create_bridge calls, as
\* [name, url].
CreateCalls(error_text, current_groups, bridges_config) ==
    LET parsed == ParseBridgeError(error_text)
        missing_bridges == MissingBridges(parsed.required_bridges, parsed.existing_bridges)
        consolidated_bridges ==
            IF current_groups.none THEN EmptyDict
            ELSE GetBridgesFromGroups(current_groups.groups, bridges_config)
    IN {[name |-> b, url |-> consolidated_bridges[b]] :
           b \in SeqToSet(missing_bridges) \cap DOMAIN consolidated_bridges}

\* check_bridge_config, lines 491-552: the required names found in a group
\* that is not one of the node's; `group_name not in current_groups` raises
\* TypeError for None, and the except clause returns ([], []).
CheckBridgeConfig(error_text, current_groups, bridges_config) ==
    LET required_bridges == SeqToSet(ParseBridgeError(error_text).required_bridges)
    IN IF current_groups.none /\ required_bridges # {} /\ DOMAIN bridges_config # {}
       THEN {}
       ELSE {b \in required_bridges :
                \E g \in DOMAIN bridges_config \ SeqToSet(current_groups.groups) :
                    b \in DOMAIN bridges_config[g]}

\* The bridge repair of one rejected job: approve_jobs (cl_jobs.py lines
\* 337-390) creates and then reports what check_bridge_config found;
\* the reapprove loop (reapprove_cmd.py lines 187-197) only creates.
Repair(caller, error_text, current_groups, bridges_config) ==
    /\ run' = [caller |-> caller, error_text |-> error_text,
               current_groups |-> current_groups, bridges_config |-> bridges_config,
               missing_bridges |->
                   SeqToSet(MissingBridges(ParseBridgeError(error_text).required_bridges,
                                           ParseBridgeError(error_text).existing_bridges)),
               created |-> CreateCalls(error_text, current_groups, bridges_config),
               other_groups |->
                   IF caller = "approve_jobs"
                   THEN CheckBridgeConfig(error_text, current_groups, bridges_config)
                   ELSE {}]
    /\ UNCHANGED <<file, now, seqVars, node, procVars>>

NextRepair ==
    \/ /\ run = NoSelection
       /\ \E caller \in {"approve_jobs", "reapprove_cmd"},
             error_text \in BridgeErrorTexts, current_groups \in NodeGroups,
             bridges_config \in BridgesConfigs :
             Repair(caller, error_text, current_groups, bridges_config)
    \/ Return

SpecRepair == InitMatch /\ [][NextRepair]_vars

(***************************************************************************)
(* helpers.retry_on_connection_error: one call through the wrapper, an     *)
(* attempt of the wrapped function at a time.                              *)
(***************************************************************************)
MaxRetries == 3

\* The declared return type of the wrapped function (none: no annotation).
Annotations == {"bool", "list", "dict", "none"}

\* Lines 114-122: the empty value of the declared return type.
EmptyValue(return_annotations) ==
    IF return_annotations = "bool" THEN "False"
    ELSE IF return_annotations = "list" THEN "[]"
    ELSE IF return_annotations = "dict" THEN "{}"
    ELSE NoneValue

NoRetry ==
    [phase |-> "none", max_retries |-> 0, annotation |-> "none", retries |-> 0,
     calls |-> 0, ret |-> NoneValue, slept |-> 0]

InitRetry ==
    /\ file = MissingFile
    /\ now = 0
    /\ last = NoCall
    /\ prior = NoCall
    /\ node = [j \in RunJobIds |-> "PENDING"]
    /\ run = NoRetry
    /\ ProcsIdle

\* Lines 100-103: the wrapper is entered.
Wrapper(max_retries, return_annotations) ==
    /\ run.phase = "none"
    /\ run' = [NoRetry EXCEPT !.phase = "calling", !.max_retries = max_retries,
                              !.annotation = return_annotations]
    /\ UNCHANGED <<file, now, seqVars, node, procVars>>

\* The test of line 108 with >= : one attempt fewer.
RetriesExceededEarly(retries, max_retries) == retries >= max_retries

\* Line 108: if retries > max_retries.
RetriesExceeded(retries, max_retries) == retries > max_retries

\* Lines 104-134: one pass of the while loop.  outcome: the wrapped
\* function returns ("result"), raises RequestException or SSLError
\* ("connection"), or raises another exception ("other").
TryCall(outcome) ==
    /\ run.phase = "calling"
    /\ run' =
         IF outcome = "result"
         THEN [run EXCEPT !.calls = @ + 1, !.phase = "returned", !.ret = "result"]
         ELSE IF outcome = "other"
         THEN [run EXCEPT !.calls = @ + 1, !.phase = "raised"]
         ELSE IF RetriesExceeded(run.retries + 1, run.max_retries)
         THEN [run EXCEPT !.calls = @ + 1, !.retries = @ + 1, !.phase = "returned",
                          !.ret = EmptyValue(run.annotation)]
         ELSE [run EXCEPT !.calls = @ + 1, !.retries = @ + 1, !.slept = @ + 1]
    /\ UNCHANGED <<file, now, seqVars, node, procVars>>

\* The caller goes on with the value, or with the exception.
Leave ==
    /\ run.phase \in {"returned", "raised"}
    /\ run' = NoRetry
    /\ UNCHANGED <<file, now, seqVars, node, procVars>>

NextRetry ==
    \/ \E max_retries \in 0..MaxRetries, return_annotations \in Annotations :
          Wrapper(max_retries, return_annotations)
    \/ \E outcome \in {"result", "connection", "other"} : TryCall(outcome)
    \/ Leave

SpecRetry == InitRetry /\ [][NextRetry]_vars

(***************************************************************************)
(* The response approve_jobs and the reapprove loop inspect after a failed *)
(* approval: session._last_response, which approve_job sets after its      *)
(* post returned (chainlink_api.py line 373) and the callers read with     *)
(* getattr(chainlink_api.session, '_last_response', None).                 *)
(***************************************************************************)
\* What the node does with an approval request: approves, rejects with an
\* error, rejects with the bridge-missing error, or cannot be reached in
\* any of the attempts of retry_on_connection_error.
PostAnswers == {"ok", "error", "bridge", "transport"}

NoResponse == [job |-> 0, answer |-> "none"]

\* approve_job, lines 336-386, under retry_on_connection_error: the new
\* value of session._last_response and the boolean returned.  The post
\* raises on a transport failure, line 373 is not reached, and the wrapper
\* returns False.
ApproveJob(job, answer, last_response) ==
    IF answer = "transport"
    THEN [last_response |-> last_response, success |-> FALSE]
    ELSE [last_response |-> [job |-> job, answer |-> answer],
          success |-> answer = "ok"]

NoSession ==
    [phase |-> "none", caller |-> "none", done |-> 0, last_response |-> NoResponse,
     answer |-> "none", success |-> FALSE, inspected |-> NoResponse,
     repair |-> FALSE, errors |-> << >>]

InitSession ==
    /\ file = MissingFile
    /\ now = 0
    /\ last = NoCall
    /\ prior = NoCall
    /\ node = [j \in RunJobIds |-> "PENDING"]
    /\ run = NoSession
    /\ ProcsIdle

\* A batch starts on the session of the node; the session is new or kept
\* in SESSION_POOL from an earlier use without a stored response.
OpenSession(caller) ==
    /\ run.phase = "none"
    /\ run' = [NoSession EXCEPT !.phase = "batch", !.caller = caller]
    /\ UNCHANGED <<file, now, seqVars, node, procVars>>

\* cl_jobs.py lines 315-337 and reapprove_cmd.py lines 172-187: the next
\* job is approved; after a False the stored response is read for the error
\* text, and the bridge repair is started when it holds the bridge-missing
\* error.  The text read is kept with the failed job: error_details of the
\* failed_jobs entry in approve_jobs (lines 331-333), the Error line
\* printed by the reapprove loop (line 185).
ApproveNext(answer) ==
    /\ run.phase = "batch"
    /\ run.done < MaxBatch
    /\ \E r \in {ApproveJob(run.done + 1, answer, run.last_response)} :
          run' = [run EXCEPT !.done = @ + 1, !.answer = answer,
                             !.last_response = r.last_response,
                             !.success = r.success,
                             !.inspected = IF r.success THEN NoResponse
                                           ELSE r.last_response,
                             !.repair = ~r.success
                                        /\ r.last_response.answer = "bridge",
                             !.errors = IF r.success THEN @
                                        ELSE Append(@, [job |-> run.done + 1,
                                                        text |-> r.last_response])]
    /\ UNCHANGED <<file, now, seqVars, node, procVars>>

CloseSession ==
    /\ run.phase = "batch"
    /\ run' = NoSession
    /\ UNCHANGED <<file, now, seqVars, node, procVars>>

NextSession ==
    \/ \E caller \in {"approve_jobs", "reapprove_cmd"} : OpenSession(caller)
    \/ \E answer \in PostAnswers : ApproveNext(answer)
    \/ CloseSession

SpecSession == InitSession /\ [][NextSession]_vars

(***************************************************************************)
(* The scheduler: get_next_scheduled_time and the wait of the main loop    *)
(* (cl_job_scheduler.py).                                                  *)
(***************************************************************************)
MaxHour == 1

\* INTERVAL_MINUTES: SCHEDULER_INTERVAL_MINUTES or --interval, any positive
\* integer; the default 15, divisors of 60, and intervals that do not
\* divide the hour or exceed it.
Intervals == {7, 15, 20, 45, 60, 90}

\* datetime.now(), to the second.
Clocks == [hour : 0..MaxHour, minute : 0..59, second : {0, 30}]

\* The seconds from the start of the day to a time of the day.
Seconds(t) == (t.hour * 60 + t.minute) * 60 + t.second

\* get_next_scheduled_time, lines 53-79.
GetNextScheduledTime(clock, interval_minutes) ==
    LET minutes == clock.minute
        interval_slot == minutes \div interval_minutes
        target_minute == ((interval_slot + 1) * interval_minutes) % 60
        target_time == [hour |-> clock.hour, minute |-> target_minute, second |-> 0]
    IN IF Seconds(target_time) <= Seconds(clock)
       THEN IF target_minute = 0
            THEN [target_time EXCEPT !.hour = @ + 1]
            ELSE IF target_minute < minutes
                 THEN [target_time EXCEPT !.hour = @ + 1]
                 ELSE target_time
       ELSE target_time

\* main, lines 115-119: wait_seconds = max(0, (next_run_time - now)
\* .total_seconds()).
WaitSeconds(next_run_time, clock) ==
    IF Seconds(next_run_time) - Seconds(clock) > 0
    THEN Seconds(next_run_time) - Seconds(clock)
    ELSE 0

\* One turn of the loop of main, lines 112-125: the next run time is
\* computed and the loop sleeps for the wait before run_job_approvals.
Schedule(clock, interval_minutes) ==
    /\ run' = [op |-> "schedule", clock |-> clock, interval |-> interval_minutes,
               next_run_time |-> GetNextScheduledTime(clock, interval_minutes),
               wait_seconds |-> WaitSeconds(GetNextScheduledTime(clock, interval_minutes),
                                            clock)]
    /\ UNCHANGED <<file, now, seqVars, node, procVars>>

NextSchedule ==
    \/ /\ run = NoSelection
       /\ \E clock \in Clocks, interval_minutes \in Intervals :
             Schedule(clock, interval_minutes)
    \/ Return

SpecSchedule == InitMatch /\ [][NextSchedule]_vars

(***************************************************************************)
(* Properties of the incident store.                                       *)
(***************************************************************************)
\* The records of a scope in a file, as a dict (empty when the key is absent).
ScopeRecs(f, service, network) ==
    LET incidents == LoadOpenIncidents(f).val
        key == Key(service, network)
    IN IF key \in DOMAIN incidents /\ incidents[key].shape = "dict"
       THEN incidents[key].recs ELSE EmptyDict

SameTriple(a, b) ==
    a.service = b.service /\ a.network = b.network /\ a.job_id = b.job_id

\* C1: a track_incident call on a store that does not hold the job returns
\* True; a second call for the same triple with another error text returns
\* False, and then the record holds the second error text, first_seen is
\* the one the first call set and last_seen is strictly greater than the
\* one the first call set.
C1_TrackDedup ==
    /\ (last.op = "track"
         /\ last.job_id \notin DOMAIN ScopeRecs(last.before, last.service, last.network))
        => last.ret = TRUE
    /\ (prior.op = "track" /\ last.op = "track" /\ SameTriple(prior, last)
         /\ prior.job_id \notin DOMAIN ScopeRecs(prior.before, prior.service, prior.network)
         /\ prior.error # last.error)
        => LET first == ScopeRecs(last.before, last.service, last.network)[last.job_id]
               second == ScopeRecs(file, last.service, last.network)[last.job_id]
           IN /\ prior.ret = TRUE
              /\ last.ret = FALSE
              /\ second.error = last.error
              /\ second.first_seen = first.first_seen
              /\ second.last_seen > first.last_seen

C1_Witness ==
    /\ prior.op = "track" /\ last.op = "track" /\ SameTriple(prior, last)
    /\ prior.ret = TRUE /\ last.ret = FALSE
    /\ prior.error = "boom" /\ last.error = "boom2"
    /\ ScopeRecs(file, last.service, last.network)[last.job_id].error = "boom2"

\* C2: no scope key of the persisted document maps to an empty mapping, and
\* once remove_incident has returned the job is not among the scope's open
\* incidents and, when it was the scope's only entry, the scope key is gone.
C2_RemoveClears ==
    /\ \A k \in DOMAIN LoadOpenIncidents(file).val :
           ~EntryIsEmpty(LoadOpenIncidents(file).val[k])
    /\ last.op = "remove"
        => /\ last.job_id \notin OpenIncidents(file, last.service, last.network)
           /\ OpenIncidents(last.before, last.service, last.network) = {last.job_id}
               => Key(last.service, last.network) \notin DOMAIN LoadOpenIncidents(file).val

C2_Witness ==
    /\ last.op = "remove"
    /\ OpenIncidents(last.before, last.service, last.network) = {last.job_id}
    /\ Key(last.service, last.network) \notin DOMAIN LoadOpenIncidents(file).val
    /\ DOMAIN LoadOpenIncidents(file).val # {}

(***************************************************************************)
(* Properties of the approval run.                                         *)
(***************************************************************************)
\* The open incidents of the run's scope in a file.
RunOpen(f) == OpenIncidents(f, run.service, run.network)

SlackFailed == {i \in DOMAIN run.slack : run.slack[i].kind = "failed"}

SlackApproved == {i \in DOMAIN run.slack : run.slack[i].kind = "approved"}

\* C3: when an executing approval run has finished, every job it acted on
\* has an incident in the store if it failed and none if it was approved,
\* whether or not notifications were suppressed.
C3_Original ==
    (run.auth /\ run.execute /\ ~run.raised)
    => \A j \in run.acted :
           /\ j \in run.failed => j \in RunOpen(file)
           /\ j \in run.approved => j \notin RunOpen(file)

\* C3 for the runs that do not suppress notifications.
C3_WhenNotifying ==
    (run.auth /\ run.execute /\ ~run.raised /\ ~run.suppress)
    => \A j \in run.acted :
           /\ j \in run.failed => j \in RunOpen(file)
           /\ j \in run.approved => j \notin RunOpen(file)

\* C4: the check at the start of a run examines every open incident of the
\* scope, returned by a feeds manager or not: one whose job is no longer
\* pending is removed and a resolve is sent for it, one whose job is still
\* pending is kept.
C4_Original ==
    run.auth
    => \A j \in RunOpen(run.before) :
           IF run.node_before[j] \in {"PENDING", "UPDATED"}
           THEN j \in RunOpen(run.after_check)
           ELSE /\ j \notin RunOpen(run.after_check)
                /\ \E i \in DOMAIN run.check_pd :
                       run.check_pd[i] = PagerDuty("resolve", j)

\* C4 for the incidents whose job a feeds manager still returns.
C4_WhenReturned ==
    run.auth
    => \A j \in RunOpen(run.before) :
           run.node_before[j] # "GONE"
           => IF run.node_before[j] \in {"PENDING", "UPDATED"}
              THEN j \in RunOpen(run.after_check)
              ELSE /\ j \notin RunOpen(run.after_check)
                   /\ \E i \in DOMAIN run.check_pd :
                          run.check_pd[i] = PagerDuty("resolve", j)

\* C5: a job is listed in a Slack failure message only in the run that
\* creates its incident: it had no open incident when the run started and
\* has one when the run ends.  A job that fails while its incident is
\* already open is in no Slack failure message.
C5_SlackOnlyWhenCreated ==
    \A i \in SlackFailed :
        \A j \in SeqToSet(run.slack[i].job_ids) :
            /\ j \notin RunOpen(run.before)
            /\ j \in RunOpen(file)
            /\ j \in run.failed

C5_Witness ==
    /\ run.auth /\ run.execute /\ ~run.suppress
    /\ \E j \in run.failed :
           /\ j \in RunOpen(run.before)
           /\ j \in RunOpen(file)
           /\ \A i \in SlackFailed : j \notin SeqToSet(run.slack[i].job_ids)

C7_Original ==
    \A p \in Procs :
        (pc[p] = "crashed" /\ loc[p].crash_at \in SaveSteps
         /\ \A q \in Procs \ {p} : pc[q] = "idle")
        => (file = loc[p].prev \/ file = DocFile(loc[p].doc))

\* C8: a load_open_incidents that holds the shared lock reads a complete
\* document (or finds no file), never an empty or partial one, while no
\* process has been killed.
C8_Original ==
    (\A q \in Procs : pc[q] # "crashed")
    => \A p \in Procs : loc[p].raw \in {"none", "missing", "doc"}

\* C9: no lock is held between the read and the write of an operation, and
\* when the processes have all completed normally the file holds exactly
\* the document of the process that wrote last.
C9_LastWriterWins ==
    /\ \A p \in Procs :
           pc[p] \in {"loaded", "save_tmp", "save_open"}
           => p \notin locks.sh \cup locks.ex
    /\ ((\A p \in Procs : pc[p] = "done") /\ copier # "none")
       => file = DocFile(loc[copier].doc)

\* Both processes read the same document, both tracked a job and completed
\* normally, and the job of the earlier writer is not in the store.
C9_Witness ==
    /\ \A p \in Procs : pc[p] = "done" /\ task[p].kind = "track"
    /\ \A p \in Procs : loc[p].raw \in {"missing", "doc"}
    /\ \A p \in Procs, q \in Procs : loc[p].incidents = loc[q].incidents
    /\ task["p1"].job_id # task["p2"].job_id
    /\ \E p \in Procs :
           task[p].job_id \notin OpenIncidents(file, ConcService, ConcNetwork)

\* C10: on a missing, unreadable or invalid incidents file,
\* load_open_incidents returns the empty mapping, and load_open_incidents,
\* track_incident, remove_incident and check_open_incidents raise nothing.
C10_FaultyFileIsEmptyStore ==
    (last.op # "none" /\ last.before.kind \in FaultyKinds)
    => /\ ~last.raised
       /\ last.op = "load" => last.val = EmptyDict

\* check_open_incidents has just run on bytes that are no JSON, after a
\* load_open_incidents of an unreadable file.
C10_Witness ==
    /\ last.op = "check" /\ last.before.kind = "garbage" /\ ~last.raised
    /\ prior.op = "load" /\ prior.before.kind = "unreadable"
    /\ prior.val = EmptyDict /\ ~prior.raised

(***************************************************************************)
(* Properties of the legacy shape and of the file format.                  *)
(***************************************************************************)
\* C11: an operation (track_incident, remove_incident, check_open_incidents)
\* that finds the scope entry in the legacy list shape completes without
\* raising and leaves no list under the scope key: every legacy job id has a
\* record with first_seen = last_seen; and tracking a legacy job id returns
\* False.
C11_Original ==
    (last.op \in {"track", "remove", "check"}
     /\ IsLegacy(last.before, last.service, last.network))
    => /\ ~last.raised
       /\ ~IsLegacy(file, last.service, last.network)
       /\ \A j \in DOMAIN ScopeRecs(file, last.service, last.network) :
              j # last.job_id
              => LET rec == ScopeRecs(file, last.service, last.network)[j]
                 IN rec.first_seen = rec.last_seen
       /\ (last.op = "track"
           /\ last.job_id \in OpenIncidents(last.before, last.service, last.network))
          => ~last.ret

C13_Original ==
    (run # NoRun /\ run.command \in {"cl_jobs", "reapprove"} /\ run.done > 0)
    => /\ run.attempt.approve_calls <= 2
       /\ (run.answer.first = "bridge" /\ run.attempt.created >= 1)
          => run.attempt.approve_calls = 2

\* C14: every job acted on gets at most two approve calls and at most one
\* create_missing_bridges call; when the retried approval fails the job is
\* counted as failed, and the run has made at most two approve calls per job
\* acted on.
C14_BoundedCalls ==
    (run # NoRun /\ run.done > 0)
    => /\ run.attempt.approve_calls <= 2
       /\ run.attempt.repair_calls <= 1
       /\ run.approve_calls <= 2 * run.done
       /\ (run.attempt.approve_calls = 2 /\ run.answer.retry # "ok")
          => (~run.attempt.succeeded /\ run.failed >= 1)

\* The retried approval of a job has failed again with the bridge-missing
\* error, in approve_jobs.
C14_Witness ==
    /\ run # NoRun /\ run.command = "cl_jobs" /\ run.done > 0
    /\ run.answer.first = "bridge" /\ run.answer.retry = "bridge"
    /\ run.attempt.approve_calls = 2 /\ run.attempt.repair_calls = 1
    /\ ~run.attempt.succeeded

\* C15: a run whose execute flag is false makes no approve, cancel or
\* bridge-create call and acts on no job, whatever the number of matched
\* jobs.
C15_DryRunNoCalls ==
    (run # NoRun /\ ~run.execute)
    => /\ run.approve_calls = 0 /\ run.cancel_calls = 0 /\ run.create_calls = 0
       /\ run.done = 0

\* A dry run of the approval job has listed several matched jobs and returned.
C15_Witness ==
    /\ run # NoRun /\ ~run.execute /\ run.phase = "finished"
    /\ run.size >= 2 /\ run.command = "cl_jobs"
    /\ run.approve_calls = 0

\* C16: a request that does not ask for execution, from whatever entry
\* point, causes no approve and no cancel call.
C16_Original ==
    (run # NoRun /\ ~run.asked)
    => (run.approve_calls = 0 /\ run.cancel_calls = 0)

\* C17: an executing batch that has ended has acted on every matched job,
\* ended by returning, and counted each job once: succeeded + failed = the
\* number of matched jobs; and at every moment succeeded + failed = the
\* number of jobs acted on.
C17_BatchCompletes ==
    run # NoRun
    => /\ run.succeeded + run.failed = run.done
       /\ (run.execute /\ run.phase \in {"finished", "raised"})
          => (run.phase = "finished" /\ run.done = run.size)

\* A batch of three jobs has ended after a job raised an exception and a
\* job was rejected, with one success.
C17_Witness ==
    /\ run # NoRun /\ run.execute /\ run.phase = "finished"
    /\ run.size = 3 /\ run.done = 3 /\ run.succeeded = 1 /\ run.failed = 2
    /\ run.answer.first = "exception"

\* C18: in a run of main over several scopes, a failure in one scope
\* (authentication, incident check, feeds-manager listing, job fetch) ends
\* only that scope: main never ends before every host of the list has been
\* processed and the completion step has been reached.
C18_Original ==
    run.phase # "raised"

(***************************************************************************)
(* Properties of the selection functions.                                  *)
(***************************************************************************)
\* The actions of the last selection call that come from this job.
ActionsOf(job) == {i \in 1..Len(run.actions) : run.actions[i].job_id = job.id}

\* The proposal is eligible for cancellation and has the explicit job id.
ExplicitlyNamed(job) ==
    /\ run.job_id # NoneValue /\ job.id = run.job_id
    /\ job.status = "APPROVED" /\ job.has_spec

\* The name of the proposal contains a supplied feed id or pattern.
NameMatches(job) ==
    \/ \E i \in 1..Len(run.feed_ids) : InName(Lower(run.feed_ids[i]), job.name)
    \/ \E i \in 1..Len(run.patterns) : InName(Lower(run.patterns[i]), job.name)

\* C19: for every eligible job whose id is the explicit job id and whose
\* name also contains a supplied feed id or pattern, get_jobs_to_cancel (of
\* the command and of cl_delete_jobs.py) reports the job with the reason
\* "job ID" and the job id as identifier, and with no other reason.
C19_ExplicitIdWins ==
    run.op \in {"cancel_cmd", "cl_delete_jobs"}
    => \A k \in 1..Len(run.jobs) :
          (ExplicitlyNamed(run.jobs[k]) /\ NameMatches(run.jobs[k]))
          => /\ ActionsOf(run.jobs[k]) # {}
             /\ \A i \in ActionsOf(run.jobs[k]) :
                   /\ run.actions[i].match_reason = "job ID"
                   /\ run.actions[i].matched_identifier = run.job_id

\* The job with the explicit id has a name that contains the first feed id
\* and the first pattern of the request, and was selected by
\* cl_delete_jobs.get_jobs_to_cancel with another job selected by feed id.
C19_Witness ==
    /\ run.op = "cl_delete_jobs" /\ Len(run.jobs) = 2
    /\ ExplicitlyNamed(run.jobs[1])
    /\ Len(run.feed_ids) > 0 /\ InName(Lower(run.feed_ids[1]), run.jobs[1].name)
    /\ Len(run.patterns) > 0 /\ InName(Lower(run.patterns[1]), run.jobs[1].name)
    /\ \E i \in 1..Len(run.actions) : run.actions[i].match_reason = "job ID"
    /\ \E i \in 1..Len(run.actions) : run.actions[i].match_reason = "feed ID"

\* C20: in the list one selection call returns, no job contributes more
\* than one action.
C20_Original ==
    \A k \in 1..Len(run.jobs) : Cardinality(ActionsOf(run.jobs[k])) <= 1

(***************************************************************************)
(* Properties of the unmatched-identifier report.                          *)
(***************************************************************************)
\* C21: the final report of a command over several feeds managers holds no
\* identifier that matched a job in at least one of the feeds managers.
C21_Original ==
    run # NoSelection
    => \A k \in 1..Len(run.fms) :
          /\ run.report.matched_feed_ids[k] \cap run.report.unmatched_feed_ids = {}
          /\ run.report.matched_patterns[k] \cap run.report.unmatched_patterns = {}

\* C22: a matched job without a latest spec id is not in the action list,
\* no action carries a placeholder spec id, the job is warned about, and the
\* selection does not raise.
C22_Original ==
    run # NoSelection
    => /\ ~run.raised
       /\ run.placeholder = {}
       /\ \A i \in 1..Len(run.jobs) :
             (run.jobs[i].matched /\ run.jobs[i].shape # "id")
             => (i \notin run.listed /\ i \in run.warned)

\* C23: when no selection criterion is in effect (no job id, no feed id and
\* no pattern, whatever the reason), the cancel and reapprove commands
\* select no job and make no cancel or approve call.
C23_Original ==
    (/\ run # NoSelection
     /\ run.result.job_id = NoneValue
     /\ Len(run.result.feed_ids) = 0
     /\ Len(run.result.patterns) = 0)
    => (Len(run.result.actions) = 0 /\ run.result.calls = 0)

(***************************************************************************)
(* Properties of the bridge resolver.                                      *)
(***************************************************************************)
\* The names of a bracketed list of the text.
NamesOf(list) == SeqToSet(list.names)

\* C24 as stated: the bridges treated as missing are the asked-for names
\* minus the names of the exists list.
C24_Original ==
    (run # NoSelection /\ run.error_text.asked.found)
    => SeqToSet(run.result.missing_bridges)
       = NamesOf(run.error_text.asked) \ NamesOf(run.error_text.exists)

\* C24: the bridges treated as missing are the asked-for names minus the
\* names of the exists list that begin with "bridge-": an existing bridge
\* with another name is not recognised and counts as missing when asked for.
C24_PrefixedDifference ==
    (run # NoSelection /\ run.error_text.asked.found)
    => SeqToSet(run.result.missing_bridges)
       = NamesOf(run.error_text.asked)
         \ {b \in NamesOf(run.error_text.exists) : BridgePrefixed(b)}

\* Two bridges were asked for, one of them exists, the other is missing.
C24_Witness ==
    /\ run # NoSelection
    /\ run.error_text.asked = Bracketed(<<"bridge-a", "bridge-b">>)
    /\ run.error_text.exists = Bracketed(<<"bridge-a">>)
    /\ run.result.missing_bridges = <<"bridge-b">>

\* C25: the result create_missing_bridges gives approve_jobs for a text
\* without an asked-for list differs from its result when nothing is
\* missing and when provisioning failed, which are both False.
C25_Original ==
    (run # NoSelection /\ ~run.error_text.asked.found)
    => run.result.ret # FALSE

\* The groups of the node's own list that hold this name.
OwnGroupsWith(b) ==
    {g \in SeqToSet(run.current_groups.groups) \cap DOMAIN run.bridges_config :
        b \in DOMAIN run.bridges_config[g]}

\* The name is configured, and only in groups that are not the node's.
OnlyInOtherGroups(b) ==
    /\ OwnGroupsWith(b) = {}
    /\ \E g \in DOMAIN run.bridges_config : b \in DOMAIN run.bridges_config[g]

\* Bridge repair creates only missing names configured in the node's own
\* groups, with a URL one of those groups gives.
C26_CreatesOwnGroupsOnly ==
    run # NoSelection
    => \A c \in run.created :
          /\ c.name \in run.missing_bridges
          /\ \E g \in OwnGroupsWith(c.name) : c.url = run.bridges_config[g][c.name]

\* C26: bridge repair creates only missing names configured in the node's
\* own groups, with the URL of those groups, and a missing name configured
\* only in other groups is not created and is reported as found in other
\* groups.
C26_Original ==
    /\ C26_CreatesOwnGroupsOnly
    /\ run # NoSelection
       => \A b \in run.missing_bridges :
             OnlyInOtherGroups(b)
             => /\ b \notin {c.name : c \in run.created}
                /\ b \in run.other_groups

(***************************************************************************)
(* Properties of the retry wrapper.                                        *)
(***************************************************************************)
\* C30: a call through retry_on_connection_error invokes the wrapped
\* function at most max_retries + 1 times; while it is still calling fewer
\* than max_retries + 1 attempts were made, so the loop ends; when every
\* attempt raised a connection error the empty value of the declared type
\* is returned after exactly max_retries + 1 attempts and nothing is
\* raised; a result is returned by the attempt that produced it.
C30_BoundedRetries ==
    /\ run.calls <= run.max_retries + 1
    /\ run.phase = "calling" => run.calls <= run.max_retries
    /\ (run.phase \in {"returned", "raised"} /\ run.retries = run.calls)
       => /\ run.phase = "returned"
          /\ run.calls = run.max_retries + 1
          /\ run.ret = EmptyValue(run.annotation)
    /\ (run.phase = "returned" /\ run.retries < run.calls)
       => (run.ret = "result" /\ run.retries = run.calls - 1)

\* Every attempt of a function declared -> bool raised a connection error
\* with max_retries = 2, and False was returned after the third.
C30_Witness ==
    /\ run.phase = "returned" /\ run.max_retries = 2 /\ run.annotation = "bool"
    /\ run.calls = 3 /\ run.retries = 3 /\ run.ret = "False"

\* C27: the response inspected after the failed approval of a job is the
\* node's response to that job's own request, never one left on the session
\* by an earlier job, and no response at all when the request failed at
\* transport level.
C27_Original ==
    (run.phase = "batch" /\ run.done > 0 /\ ~run.success)
    => /\ run.inspected.job \in {0, run.done}
       /\ run.answer = "transport" => run.inspected = NoResponse

\* C28: the cancel command reports an identifier or pattern as unmatched
\* only when no APPROVED job of any feeds manager has a name that contains
\* it, case-insensitively.
C28_Original ==
    (run # NoSelection /\ run.op = "cancel_cmd")
    => \A x \in run.report.unmatched_feed_ids \cup run.report.unmatched_patterns :
          ~ \E k \in 1..Len(run.fms) : \E i \in 1..Len(run.fms[k]) :
               /\ run.fms[k][i].status = "APPROVED"
               /\ InName(Lower(x), run.fms[k][i].name)

\* C29: the next scheduled time is strictly later than now, at second 0, at
\* a minute that is a multiple of the interval; the loop waits a positive
\* time.
C29_Original ==
    (run # NoSelection /\ run.op = "schedule")
    => /\ Seconds(run.next_run_time) > Seconds(run.clock)
       /\ run.next_run_time.second = 0
       /\ run.next_run_time.minute % run.interval = 0
       /\ run.wait_seconds > 0

\* The part of C29 that holds: for an interval that divides the hour the
\* next run is later than now, at second 0 of a multiple of the interval,
\* and at most one interval away.
C29_DividingIntervals ==
    (run # NoSelection /\ run.op = "schedule" /\ 60 % run.interval = 0)
    => /\ run.wait_seconds > 0
       /\ run.wait_seconds <= run.interval * 60
       /\ run.next_run_time.second = 0
       /\ run.next_run_time.minute % run.interval = 0

=============================================================================
